---- MODULE Spec2Model ----
(***************************************************************************)
(* Verification model of the adhawkapi communication layer.                *)
(*                                                                         *)
(* Part I: the timed multi-device collection orchestrators                 *)
(* (adhawkapi/analog.py AnalogCollection, adhawkapi/analoglissajous.py     *)
(* AnalogLissajous).  The threads of the program are modelled one action   *)
(* per step: the caller of sample()/capture(), the watchdog thread         *)
(* (_timeout), the threads spawned for _start_next_tracker, and the        *)
(* transport's dispatch thread that runs the stream handlers.  A stream    *)
(* handler runs to completion on the dispatch thread and is one action.    *)
(* The device is the environment: a tracker streams only between a         *)
(* successful start and its completion or a successful stop.               *)
(***************************************************************************)
EXTENDS Integers, Sequences, FiniteSets, TLC

\* ------------------------------------------------------------ bounds
\* the device's trackers (right eye 0, left eye 1)
Trackers == {0, 1}
\* collection calls made on one orchestrator instance
MaxSessions == 2
\* opts['sample_count'] used by the modelled sessions
SampleCount == 2
\* firmware API versions 0.<minor>.0 the device may report
FirmwareMinors == {44, 46, 86}
\* values the device may hold in SPEC_ADC_REFERENCE_VOLTAGE (millivolt)
AdcReferenceValues == {2500}
\* raw (max, min, capturecount) a window packet may carry
WindowPayloads == {<<4095, 1365, 3>>}
\* raw values of streamed samples
SampleValues == {4095}
\* identities of the threads calling sample()/capture()
CallerIds == {1, 2}
\* identities of the threads created at analog.py:312 / analoglissajous.py:216
SpawnIds == {11, 12}

\* ------------------------------------------------------------ program constants
RINGDOWN == 0
SPARE_1 == 6
SPARE_2 == 7
SPARE_1_AND_SPARE_2 == 8
COLLECTION_ERROR == 0
WINDOW_MEGASAMPLE_TRIGGER_ERROR == 2
L_COLLECTION_ERROR == 1
OVERFLOW_WARNING == 1
CAPTURE_STOPPED_WARNING == 3
RINGDOWN_SAMPLE_RESOLUTION == 12
ADC_DEFAULT_REFERENCE_VOLTAGE == 3300
MEGASAMPLE_MIN_API == 45
TWO_CHANNEL_MIN_API == 47
ADC_REFERENCE_MIN_API == 86

VARIABLES
    flow,       \* "analog" (AnalogCollection) or "lissajous" (AnalogLissajous)
    fw,         \* firmware_info.api_version, its minor number
    callers,    \* the threads that call sample()/capture()
    self,       \* the orchestrator's fields
    callbacks,  \* TRUE while the stream handlers are registered with the api
    thr,        \* caller and spawned threads: position and locals
    wd,         \* the watchdog threads, one per Thread object created
    dev,        \* the device: per-tracker application state
    h           \* history: what was requested, called back and issued

\* Part II: the packet registry, the register api and the packet framing, each
\* exercised by a specification of its own
VARIABLES
    trie,       \* apipacket.Trie: ApiPacket._subclasses, registrations, last lookup
    regs,       \* register_api.RegisterApi: the device's registers and the calls made
    pkts        \* packet.PacketV3Factory: a received buffer and its classification

\* Part III: the blocking measurement, the frontend packet handler, the blob
\* parsers and the register transformers
VARIABLES
    meas,       \* analog.AnalogMeasurement: the caller of its sample()
    handler,    \* frontend.handlers.PacketHandler: registry, requests, deliveries
    blobs,      \* blob_parsers: a blob, its parse and its re-creation
    xform,      \* register_specs: a value taken through a transformer and back
    lastpkt     \* the stream packet dispatched last and what its handler did

orchestrator == <<flow, fw, callers, self, callbacks, thr, wd, dev, h>>
later == <<meas, handler, blobs, xform, lastpkt>>
library == <<trie, regs, pkts, later>>
vars == <<flow, fw, callers, self, callbacks, thr, wd, dev, h, trie, regs, pkts,
          meas, handler, blobs, xform, lastpkt>>

\* the value of a part's variable in the specifications that do not exercise it
Unused == "unused"

Sessions == 1..MaxSessions

Min(S) == CHOOSE x \in S : \A y \in S : x <= y
Max(S) == CHOOSE x \in S : \A y \in S : x >= y

\* ------------------------------------------------------------ errors
NoError == <<"none", -1, -1, -1>>
\* AnalogError('Did not receive the full set of analog data') /
\* AnalogLissajousError('Did not receive the full set of expected data')
IncompleteError == <<"incomplete", -1, -1, -1>>
\* AnalogError('Failed to configure analog collection on Tracker ...')
ConfigureError(t) == <<"configure", t, -1, -1>>
\* AnalogError('Failed to start analog collection on Tracker ...')
StartError(t) == <<"start", t, -1, -1>>
\* AnalogRuntimeError(error_type, tr_id, chan) / AnalogLissajousError('Tracker ..')
AnalogRuntimeError(ev, t, chan) == <<"runtime", t, ev, chan>>

\* ------------------------------------------------------------ session arguments
\* sample(channel, trackers, megasample=..., sample_count=SampleCount)
TrackerSets == (SUBSET Trackers) \ {{}}
AnalogArgs ==
    {[channel |-> c[1], megasample |-> c[2], trackers |-> ts] :
        c \in {<<RINGDOWN, FALSE>>, <<SPARE_1, FALSE>>, <<SPARE_1, TRUE>>,
               <<SPARE_1_AND_SPARE_2, TRUE>>},
        ts \in TrackerSets}
\* capture(trackers): the lissajous flow has neither channel nor megasample
LissajousArgs ==
    {[channel |-> RINGDOWN, megasample |-> FALSE, trackers |-> ts] : ts \in TrackerSets}
SessionArgs(f) == IF f = "analog" THEN AnalogArgs ELSE LissajousArgs
NoArgs == [channel |-> RINGDOWN, megasample |-> FALSE, trackers |-> {}]

\* ------------------------------------------------------------ fields after __init__
\* None is modelled as 0 for _timer and _timeoutcv, as the empty set or the
\* empty dict for the collections, and as NoError for _error.
InitSelf ==
    [all_trackers |-> {}, expected_trackers |-> {}, expected_channels |-> {},
     window_data |-> <<>>, num_samples_collected |-> <<>>,
     num_samples_expected |-> 0, timeseries_data |-> <<>>,
     channel |-> RINGDOWN, megasampling |-> FALSE,
     timer |-> 0, timeoutcv |-> 0, error |-> NoError,
     adc_reference_voltage |-> ADC_DEFAULT_REFERENCE_VOLTAGE]

\* ------------------------------------------------------------ handler results
\* A handler is evaluated on m: the fields (m.s) and what the call did besides
\* assigning fields: notify the condition, start a thread, invoke callbacks.
Enter(s) ==
    [s |-> s, sig |-> {}, spawn |-> 0, cb |-> <<>>, removed |-> {},
     recorded |-> FALSE]

\* self._timeoutcv.notify() under the condition's lock; why is kept as history
notify(m, why) == [m EXCEPT !.sig = @ \cup {why}]

\* _adc_result_to_voltage: result / (2**resolution - 1) * reference, in millivolt
adc_result_to_voltage(s, x, resolution) ==
    (x * s.adc_reference_voltage) \div (2^resolution - 1)

\* stop(): notify the condition if there is one
stop(m, why) == IF m.s.timeoutcv # 0 THEN notify(m, why) ELSE m

\* dict.popitem(): the entry inserted last; the dict comprehension at
\* analog.py:198 inserts in the set's iteration order (ascending here)
PopKey(d) == Max(DOMAIN d)
Without(d, k) == [x \in (DOMAIN d) \ {k} |-> d[x]]

finalize(m) ==
    IF m.s.megasampling
    THEN [m EXCEPT !.cb = Append(@, [cb |-> "done", arg |-> m.s.window_data])]
    ELSE IF m.s.channel = RINGDOWN
    THEN [m EXCEPT !.cb = Append(@, [cb |-> "done", arg |-> m.s.timeseries_data])]
    ELSE IF DOMAIN m.s.timeseries_data = {}
    THEN m   \* popitem on an empty dict raises KeyError
    ELSE LET k == PopKey(m.s.timeseries_data)
             result == m.s.timeseries_data[k]
             volts == [i \in DOMAIN result |->
                         adc_result_to_voltage(m.s, result[i], RINGDOWN_SAMPLE_RESOLUTION)]
         IN  [m EXCEPT !.s.timeseries_data = Without(@, k),
                       !.cb = Append(@, [cb |-> "done", arg |-> volts])]

\* variant: the tracker stays in the pending set when its stream ends
handle_end_of_analog_stream_keeps_pending(m, tracker_id) ==
    IF tracker_id \notin m.s.expected_trackers THEN m
    ELSE [m EXCEPT !.spawn = @ + 1]

handle_end_of_analog_stream(m, tracker_id) ==
    IF tracker_id \notin m.s.expected_trackers
    THEN m
    ELSE LET m1 == [m EXCEPT !.s.expected_trackers = @ \ {tracker_id},
                             !.removed = @ \cup {tracker_id}]
         IN  IF m1.s.expected_trackers # {}
             THEN [m1 EXCEPT !.spawn = @ + 1]
             ELSE finalize(notify(m1, "complete"))

handle_error_stream(m, tracker_id, error_value) ==
    stop([m EXCEPT !.s.error = AnalogRuntimeError(error_value, tracker_id, -1),
                   !.recorded = TRUE], "error")

RECURSIVE SerialLoop(_, _, _)
SerialLoop(m, tracker_id, samples) ==
    IF samples = <<>> THEN m
    ELSE LET n == m.s.num_samples_collected[tracker_id]
             m1 == [m EXCEPT !.s.timeseries_data[tracker_id][n + 1] = Head(samples),
                             !.s.num_samples_collected[tracker_id] = n + 1]
         IN  IF n + 1 >= m.s.num_samples_expected
             THEN handle_end_of_analog_stream(m1, tracker_id)
             ELSE SerialLoop(m1, tracker_id, Tail(samples))

\* a handler that raises leaves the fields as they are
handle_serial_analog_stream(m, tracker_id, samples) ==
    IF tracker_id \notin DOMAIN m.s.num_samples_collected THEN m  \* KeyError
    ELSE IF m.s.num_samples_collected[tracker_id] >= m.s.num_samples_expected THEN m
    ELSE IF tracker_id \notin DOMAIN m.s.timeseries_data THEN m   \* KeyError
    ELSE SerialLoop(m, tracker_id, samples)

RECURSIVE IndexedLoop(_, _, _, _)
IndexedLoop(m, tracker_id, index, samples) ==
    IF samples = <<>> THEN m
    ELSE IF index + 1 > Len(m.s.timeseries_data[tracker_id])
    THEN \* the counter is incremented, then the buffer write raises IndexError
         [m EXCEPT !.s.num_samples_collected[tracker_id] = @ + 1]
    ELSE LET n == m.s.num_samples_collected[tracker_id]
             m1 == [m EXCEPT !.s.num_samples_collected[tracker_id] = n + 1,
                             !.s.timeseries_data[tracker_id][index + 1] = Head(samples)]
         IN  IF n + 1 >= m.s.num_samples_expected
             THEN handle_end_of_analog_stream(m1, tracker_id)
             ELSE IndexedLoop(m1, tracker_id, index + 1, Tail(samples))

handle_analog_stream(m, tracker_id, index, samples) ==
    IF index >= m.s.num_samples_expected THEN m
    ELSE IF tracker_id \notin DOMAIN m.s.num_samples_collected THEN m  \* KeyError
    ELSE IF m.s.num_samples_collected[tracker_id] >= m.s.num_samples_expected THEN m
    ELSE IF tracker_id \notin DOMAIN m.s.timeseries_data THEN m        \* KeyError
    ELSE IndexedLoop(m, tracker_id, index, samples)

WindowEntry(s, data) ==
    <<adc_result_to_voltage(s, data[1], RINGDOWN_SAMPLE_RESOLUTION),
      adc_result_to_voltage(s, data[2], RINGDOWN_SAMPLE_RESOLUTION),
      data[3]>>

handle_analog_window_stream(m, tracker_id, data) ==
    handle_end_of_analog_stream(
        [m EXCEPT !.s.window_data = (m.s.channel :> WindowEntry(m.s, data)) @@ @],
        tracker_id)

handle_end_of_channel_stream(m, tracker_id, channel_id) ==
    IF channel_id \notin m.s.expected_channels
    THEN m
    ELSE LET m1 == [m EXCEPT !.s.expected_channels = @ \ {channel_id}]
         IN  IF m1.s.expected_channels # {}
             THEN m1
             ELSE handle_end_of_analog_stream(m1, tracker_id)

handle_analog_channel_window_stream(m, tracker_id, channel_id, data) ==
    handle_end_of_channel_stream(
        [m EXCEPT !.s.window_data = (channel_id :> WindowEntry(m.s, data)) @@ @],
        tracker_id, channel_id)

\* variant: every channel error, the trigger error included, ends the session
handle_channel_error_stream_no_carve_out(m, tracker_id, channel_id, error_value) ==
    stop([m EXCEPT !.s.error = AnalogRuntimeError(error_value, tracker_id, channel_id),
                   !.recorded = TRUE], "error")

handle_channel_error_stream(m, tracker_id, channel_id, error_value) ==
    IF error_value = WINDOW_MEGASAMPLE_TRIGGER_ERROR
    THEN handle_end_of_channel_stream(
            [m EXCEPT !.s.window_data = (channel_id :> <<0, 0, 0>>) @@ @],
            tracker_id, channel_id)
    ELSE stop([m EXCEPT !.s.error = AnalogRuntimeError(error_value, tracker_id, channel_id),
                        !.recorded = TRUE], "error")

\* ---- AnalogLissajous handlers
handle_end_of_data_capture(m, tracker_id) ==
    IF tracker_id \notin m.s.expected_trackers
    THEN m
    ELSE LET m1 == [m EXCEPT !.s.expected_trackers = @ \ {tracker_id},
                             !.removed = @ \cup {tracker_id}]
         IN  IF m1.s.expected_trackers # {}
             THEN [m1 EXCEPT !.spawn = @ + 1]
             ELSE [notify(m1, "complete") EXCEPT
                             !.cb = Append(@, [cb |-> "image",
                                               arg |-> <<0 \in m.s.all_trackers,
                                                         1 \in m.s.all_trackers>>])]

handle_error(m, tracker_id, error_value) ==
    handle_end_of_data_capture(
        [m EXCEPT !.s.error = AnalogRuntimeError(error_value, tracker_id, -1),
                  !.recorded = TRUE],
        tracker_id)

handle_warning(m, tracker_id, warning_value) ==
    IF warning_value = CAPTURE_STOPPED_WARNING
    THEN handle_end_of_data_capture(m, tracker_id)
    ELSE m

handle_end_of_capture(m, tracker_id) == handle_end_of_data_capture(m, tracker_id)

\* ------------------------------------------------------------ threads and device
Rest(k) == IF k \in CallerIds THEN "idle" ELSE "none"
IdleThread(k) == [pc |-> Rest(k), args |-> NoArgs, target |-> 0, tr |-> -1]
IdleDevice == [running |-> FALSE, channel |-> RINGDOWN, mega |-> FALSE, sent |-> 0, chans |-> {}]
\* a stopped application keeps its registers and forgets its progress
Halted(d) == IF d.running THEN d ELSE [d EXCEPT !.sent = 0, !.chans = {}]
NoWatchdog == [pc |-> "none", cv |-> 0, notified |-> FALSE]

\* History of the session the fields currently belong to (the collection call
\* made last); sample()/capture() starts it afresh.
InitHistory ==
    [req |-> {},            \* trackers requested
     args |-> NoArgs,       \* arguments of the call
     completed |-> {},      \* trackers removed from the pending set
     recorded |-> FALSE,    \* an error was assigned to _error
     sig |-> {},            \* why notify() was called: "complete", "error"
     cb |-> <<>>,           \* callbacks invoked, in order
     faults |-> FALSE,      \* a register access failed or the device sent an error
     pk |-> {},             \* channel packets the handlers were given
     stopIssued |-> {},     \* api.stop(t) called by the watchdog
     cleanAtWake |-> FALSE, \* wait() returned after every tracker had completed
     acquiring |-> {}]      \* trackers started, not yet removed or stopped

\* the session the fields currently belong to
cur == self.timer

\* history of what a handler or a thread step did (m)
Hist(hh, m) ==
    [hh EXCEPT !.completed = @ \cup m.removed,
               !.recorded = @ \/ m.recorded,
               !.sig = @ \cup (m.sig \ {"stop"}),
               !.cb = @ \o m.cb,
               !.acquiring = @ \ m.removed]

\* Condition.notify(): wakes one thread waiting on that condition, if any
\* (0: nobody is waiting and the notification has no effect)
NotifyChoices(m) ==
    LET W == {w \in Sessions : wd[w].pc = "waiting" /\ wd[w].cv = m.s.timeoutcv}
    IN  IF m.sig = {} \/ W = {} THEN {0} ELSE W

Notified(n) == IF n = 0 THEN wd ELSE [wd EXCEPT ![n].pc = "notified"]

FreeSpawn == {k \in SpawnIds : thr[k].pc = "none"}

\* threading.Thread(target=self._start_next_tracker).start()
Spawned(t, m) ==
    IF m.spawn = 0 THEN t
    ELSE [t EXCEPT ![Min(FreeSpawn)].pc = "configure"]

\* the effect of a handler or thread step m, with n the thread notify() wakes
Commit(m, n, t, d, fault, pks) ==
    /\ m.spawn = 0 \/ FreeSpawn # {}
    /\ self' = m.s
    /\ wd' = Notified(n)
    /\ thr' = Spawned(t, m)
    /\ dev' = [x \in Trackers |-> Halted(d[x])]
    /\ h' = [Hist(h, m) EXCEPT !.faults = @ \/ (fault /\ callbacks),
                               !.pk = @ \cup (IF callbacks THEN pks ELSE {})]
    /\ UNCHANGED <<library, flow, fw, callers, callbacks>>

\* a packet reaches its handler only while the handler is registered
Deliver(handled) == IF callbacks THEN handled ELSE Enter(self)

\* ------------------------------------------------------------ sample() / capture()
SessionsBegun == self.timer + Cardinality({c \in callers : thr[c].pc \in {"join", "init"}})

\* analog.py:169-171, analoglissajous.py:136-138
sample_enter(c, a) ==
    /\ thr[c].pc = "idle"
    /\ SessionsBegun < MaxSessions
    /\ thr' = [thr EXCEPT ![c] = [pc |-> IF self.timer # 0 THEN "join" ELSE "init",
                                  args |-> a, target |-> self.timer, tr |-> -1]]
    /\ UNCHANGED <<library, flow, fw, callers, self, callbacks, wd, dev, h>>

\* self._timer.join() returns when that thread has exited
sample_join(c) ==
    /\ thr[c].pc = "join"
    /\ wd[thr[c].target].pc = "dead"
    /\ thr' = [thr EXCEPT ![c].pc = "init"]
    /\ UNCHANGED <<library, flow, fw, callers, self, callbacks, wd, dev, h>>

\* variant: the recorded error of the previous session is kept
sample_fields_keeps_error(s, a, new) ==
    [s EXCEPT !.all_trackers = a.trackers,
              !.expected_trackers = a.trackers,
              !.expected_channels = IF a.channel = SPARE_1_AND_SPARE_2
                                    THEN {SPARE_1, SPARE_2} ELSE {a.channel},
              !.window_data = <<>>,
              !.num_samples_collected = [t \in a.trackers |-> 0],
              !.num_samples_expected = SampleCount,
              !.channel = a.channel,
              !.timeseries_data = [t \in a.trackers |-> [i \in 1..SampleCount |-> 0]],
              !.megasampling = a.megasample,
              !.timeoutcv = new,
              !.timer = new]

\* analog.py:180-207
sample_fields(s, a, new) ==
    [s EXCEPT !.all_trackers = a.trackers,
              !.expected_trackers = a.trackers,
              !.expected_channels = IF a.channel = SPARE_1_AND_SPARE_2
                                    THEN {SPARE_1, SPARE_2} ELSE {a.channel},
              !.window_data = <<>>,
              !.num_samples_collected = [t \in a.trackers |-> 0],
              !.num_samples_expected = SampleCount,
              !.channel = a.channel,
              !.timeseries_data = [t \in a.trackers |-> [i \in 1..SampleCount |-> 0]],
              !.megasampling = a.megasample,
              !.error = NoError,
              !.timeoutcv = new,
              !.timer = new]

\* analoglissajous.py:144-160
capture_fields(s, a, new) ==
    [s EXCEPT !.all_trackers = a.trackers,
              !.expected_trackers = a.trackers,
              !.num_samples_collected = [t \in a.trackers |-> 0],
              !.num_samples_expected = SampleCount,
              !.error = NoError,
              !.timeoutcv = new,
              !.timer = new]

\* the body of sample()/capture() up to self._timer.start()
sample_init(c) ==
    /\ thr[c].pc = "init"
    /\ LET new == self.timer + 1
           a == thr[c].args
       IN  /\ self' = IF flow = "analog" THEN sample_fields(self, a, new)
                      ELSE capture_fields(self, a, new)
           /\ wd' = [wd EXCEPT ![new] = [pc |-> "started", cv |-> 0, notified |-> FALSE]]
           /\ h' = [InitHistory EXCEPT !.req = a.trackers, !.args = a,
                                        !.acquiring = h.acquiring]
    /\ callbacks' = TRUE
    /\ thr' = [thr EXCEPT ![c].pc = "configure"]
    /\ UNCHANGED <<library, flow, fw, callers, dev>>

\* ------------------------------------------------------------ _start_next_tracker
\* next(iter(self._expected_trackers))
NextTracker(s) == Min(s.expected_trackers)

\* the registers the configuration needs and the firmware does not have
VersionGate(s) ==
    \/ fw < MEGASAMPLE_MIN_API /\ s.megasampling
    \/ fw < TWO_CHANNEL_MIN_API /\ s.channel = SPARE_1_AND_SPARE_2

\* analog.py:219-258 with every register access succeeding
configure_ok(m, regval) ==
    IF flow = "analog" /\ fw >= ADC_REFERENCE_MIN_API
    THEN [m EXCEPT !.s.adc_reference_voltage = regval]
    ELSE m

\* analog.py:259-263: except error.Error
configure_failed(m, tracker_id) ==
    stop([m EXCEPT !.s.error = ConfigureError(tracker_id), !.recorded = TRUE], "error")

\* analog.py:267-271, analoglissajous.py:178-181: except error.Error
start_failed(m, tracker_id) ==
    stop([m EXCEPT !.s.error = StartError(tracker_id), !.recorded = TRUE], "error")

\* variant: the call goes on to the start command after a failed configuration
AfterConfigureFailed_starts(k, tracker_id) ==
    [IdleThread(k) EXCEPT !.pc = "start", !.tr = tracker_id]

\* analog.py:263: the thread returns after a failed configuration
AfterConfigureFailed(k, tracker_id) == IdleThread(k)

\* the thread finds the pending set empty: next() raises StopIteration
start_next_tracker_empty(k) ==
    /\ thr[k].pc = "configure"
    /\ self.expected_trackers = {}
    /\ thr' = [thr EXCEPT ![k] = IdleThread(k)]
    /\ UNCHANGED <<library, flow, fw, callers, self, callbacks, wd, dev, h>>

start_next_tracker_configure(k) ==
    /\ thr[k].pc = "configure"
    /\ self.expected_trackers # {}
    /\ flow = "lissajous" \/ ~VersionGate(self)
    /\ LET tracker_id == NextTracker(self)
       IN  \E regval \in AdcReferenceValues :
             /\ self' = configure_ok(Enter(self), regval).s
             /\ thr' = [thr EXCEPT ![k].pc = "start", ![k].tr = tracker_id]
             /\ dev' = [dev EXCEPT ![tracker_id].channel = self.channel,
                                   ![tracker_id].mega = self.megasampling]
    /\ UNCHANGED <<library, flow, fw, callers, callbacks, wd, h>>

start_next_tracker_configure_fails(k) ==
    /\ thr[k].pc = "configure"
    /\ self.expected_trackers # {}
    /\ LET tracker_id == NextTracker(self)
           m == IF flow = "analog" THEN configure_failed(Enter(self), tracker_id)
                ELSE start_failed(Enter(self), tracker_id)
       IN  \E n \in NotifyChoices(m) :
             /\ self' = m.s
             /\ wd' = Notified(n)
             /\ thr' = [thr EXCEPT ![k] = AfterConfigureFailed(k, tracker_id)]
             /\ h' = [Hist(h, m) EXCEPT !.faults = TRUE]
    /\ UNCHANGED <<library, flow, fw, callers, callbacks, dev>>

\* baseapp.py:16-20 succeeded: the tracker's application runs
start_next_tracker_start(k) ==
    /\ thr[k].pc = "start"
    /\ LET tracker_id == thr[k].tr
       IN  /\ dev' = [dev EXCEPT ![tracker_id].running = TRUE,
                                 ![tracker_id].sent = 0,
                                 ![tracker_id].chans = {}]
           /\ h' = [h EXCEPT !.acquiring = @ \cup {tracker_id}]
    /\ thr' = [thr EXCEPT ![k] = IdleThread(k)]
    /\ UNCHANGED <<library, flow, fw, callers, self, callbacks, wd>>

start_next_tracker_start_fails(k) ==
    /\ thr[k].pc = "start"
    /\ LET m == start_failed(Enter(self), thr[k].tr)
       IN  \E n \in NotifyChoices(m) :
             /\ self' = m.s
             /\ wd' = Notified(n)
             /\ h' = [Hist(h, m) EXCEPT !.faults = TRUE]
    /\ thr' = [thr EXCEPT ![k] = IdleThread(k)]
    /\ UNCHANGED <<library, flow, fw, callers, callbacks, dev>>

\* stop() called by the application, on any thread
caller_stop ==
    /\ LET m == stop(Enter(self), "stop")
       IN  \E n \in NotifyChoices(m) :
             /\ wd' = Notified(n)
             /\ h' = Hist(h, m)
    /\ UNCHANGED <<library, flow, fw, callers, self, callbacks, thr, dev>>

\* ------------------------------------------------------------ _timeout (watchdog)
\* with self._timeoutcv: self._timeoutcv.wait(...): the lock is released
timeout_begin_wait(w) ==
    /\ wd[w].pc = "started"
    /\ wd' = [wd EXCEPT ![w].pc = "waiting", ![w].cv = self.timeoutcv]
    /\ UNCHANGED <<library, flow, fw, callers, self, callbacks, thr, dev, h>>

\* the bound MAX_WAIT_TIME_S * len(all_trackers) (analog) or MAX_WAIT_TIME_S
\* (lissajous) elapses: wait() will return False
timeout_expires(w) ==
    /\ wd[w].pc = "waiting"
    /\ wd' = [wd EXCEPT ![w].pc = "timedout"]
    /\ UNCHANGED <<library, flow, fw, callers, self, callbacks, thr, dev, h>>

\* variant: the loop ends at the first stop command that fails
StopLoop_aborts(all, failed) == {t \in all : \A f \in failed : t <= f}

\* the trackers the loop at analog.py:276-280 calls api.stop for, given the
\* calls that raise error.Error
StopLoop(all, failed) == all

\* wait() returns with the lock held; api.stop for every tracker, some failing
timeout_stop_all(w) ==
    /\ wd[w].pc \in {"notified", "timedout"}
    /\ \E failed \in SUBSET self.all_trackers :
         LET issued == StopLoop(self.all_trackers, failed)
         IN  /\ dev' = [t \in Trackers |->
                          IF t \in issued \ failed
                          THEN Halted([dev[t] EXCEPT !.running = FALSE]) ELSE dev[t]]
             /\ h' = [h EXCEPT !.stopIssued = @ \cup issued,
                               !.cleanAtWake = (h.completed = h.req /\ ~h.recorded),
                               !.acquiring = @ \ issued]
    /\ wd' = [wd EXCEPT ![w].pc = "dispatch", ![w].notified = (wd[w].pc = "notified")]
    /\ UNCHANGED <<library, flow, fw, callers, self, callbacks, thr>>

\* variant: the incomplete-collection error is not raised on a timeout
timeout_error_when_notified(s, notified) ==
    IF s.error # NoError THEN s.error
    ELSE IF notified /\ (s.expected_trackers # {} \/ s.expected_channels # {})
    THEN IncompleteError
    ELSE NoError

\* analog.py:282-285, analoglissajous.py:198-201: the error handed to error_cb,
\* NoError when error_cb is not called
timeout_error(s, notified) ==
    IF s.error # NoError THEN s.error
    ELSE IF ~notified /\ (s.expected_trackers # {} \/ s.expected_channels # {})
    THEN IncompleteError
    ELSE NoError

\* analog.py:282-287: error_cb, then _remove_api_callbacks
\* analoglissajous.py:198-202: error_cb, then done_cb()
timeout_dispatch(w) ==
    /\ wd[w].pc = "dispatch"
    /\ LET e == timeout_error(self, wd[w].notified)
           errs == IF e = NoError THEN <<>> ELSE <<[cb |-> "error", arg |-> e]>>
           done == IF flow = "lissajous" THEN <<[cb |-> "finished", arg |-> NoError]>>
                   ELSE <<>>
       IN  h' = [h EXCEPT !.cb = @ \o errs \o done]
    /\ callbacks' = (flow = "lissajous")
    /\ wd' = [wd EXCEPT ![w].pc = "dead"]
    /\ UNCHANGED <<library, flow, fw, callers, self, thr, dev>>

\* ------------------------------------------------------------ the device's streams
\* AnalogCollectionApi.DataType.ANALOG_STREAM / ANALOG_FAST_CAPTURE_STREAM
dev_sample(t, serial) ==
    /\ flow = "analog"
    /\ dev[t].running /\ ~dev[t].mega
    /\ dev[t].sent < SampleCount
    /\ \E v \in SampleValues :
         LET m == Deliver(IF serial
                          THEN handle_serial_analog_stream(Enter(self), t, <<v>>)
                          ELSE handle_analog_stream(Enter(self), t, dev[t].sent, <<v>>))
         IN  \E n \in NotifyChoices(m) :
               Commit(m, n, thr,
                      [dev EXCEPT ![t].sent = @ + 1,
                                  ![t].running = (dev[t].sent + 1 < SampleCount)],
                      FALSE, {})

\* DataType.ANALOG_WINDOW_STREAM
dev_window(t) ==
    /\ flow = "analog"
    /\ dev[t].running /\ dev[t].mega /\ dev[t].channel # SPARE_1_AND_SPARE_2
    /\ \E data \in WindowPayloads :
         LET m == Deliver(handle_analog_window_stream(Enter(self), t, data))
         IN  \E n \in NotifyChoices(m) :
               Commit(m, n, thr, [dev EXCEPT ![t].running = FALSE], FALSE,
                      {<<t, self.channel, "window">>})

ChannelsLeft(t) == {SPARE_1, SPARE_2} \ dev[t].chans

\* DataType.ANALOG_CHANNEL_WINDOW_STREAM
dev_channel_window(t, ch) ==
    /\ flow = "analog"
    /\ dev[t].running /\ dev[t].mega /\ dev[t].channel = SPARE_1_AND_SPARE_2
    /\ ch \in ChannelsLeft(t)
    /\ \E data \in WindowPayloads :
         LET m == Deliver(handle_analog_channel_window_stream(Enter(self), t, ch, data))
         IN  \E n \in NotifyChoices(m) :
               Commit(m, n, thr,
                      [dev EXCEPT ![t].chans = @ \cup {ch},
                                  ![t].running = (ChannelsLeft(t) # {ch})],
                      FALSE, {<<t, ch, "window">>})

\* DataType.ANALOG_CHANNEL_ERROR_STREAM
dev_channel_error(t, ch, ev) ==
    /\ flow = "analog"
    /\ dev[t].running /\ dev[t].mega /\ dev[t].channel = SPARE_1_AND_SPARE_2
    /\ ch \in ChannelsLeft(t)
    /\ LET m == Deliver(handle_channel_error_stream(Enter(self), t, ch, ev))
       IN  \E n \in NotifyChoices(m) :
             Commit(m, n, thr,
                    [dev EXCEPT ![t].chans = @ \cup {ch},
                                ![t].running = (ev = WINDOW_MEGASAMPLE_TRIGGER_ERROR
                                                /\ ChannelsLeft(t) # {ch})],
                    ev # WINDOW_MEGASAMPLE_TRIGGER_ERROR,
                    IF ev = WINDOW_MEGASAMPLE_TRIGGER_ERROR
                    THEN {<<t, ch, "trigger">>} ELSE {})

\* DataType.ERROR_DATA: the tracker's application gives up
dev_error(t) ==
    /\ flow = "analog"
    /\ dev[t].running
    /\ LET m == Deliver(handle_error_stream(Enter(self), t, COLLECTION_ERROR))
       IN  \E n \in NotifyChoices(m) :
             Commit(m, n, thr, [dev EXCEPT ![t].running = FALSE], TRUE, {})

\* AnalogLissajousApi.DataType.END_OF_CAPTURE
dev_end_of_capture(t) ==
    /\ flow = "lissajous"
    /\ dev[t].running
    /\ LET m == Deliver(handle_end_of_capture(Enter(self), t))
       IN  \E n \in NotifyChoices(m) :
             Commit(m, n, thr, [dev EXCEPT ![t].running = FALSE], FALSE, {})

\* AnalogLissajousApi.DataType.ERROR_STREAM
dev_lissajous_error(t) ==
    /\ flow = "lissajous"
    /\ dev[t].running
    /\ LET m == Deliver(handle_error(Enter(self), t, L_COLLECTION_ERROR))
       IN  \E n \in NotifyChoices(m) :
             Commit(m, n, thr, [dev EXCEPT ![t].running = FALSE], TRUE, {})

\* AnalogLissajousApi.DataType.WARNING_STREAM
dev_warning(t, warning_value) ==
    /\ flow = "lissajous"
    /\ dev[t].running
    /\ LET m == Deliver(handle_warning(Enter(self), t, warning_value))
       IN  \E n \in NotifyChoices(m) :
             Commit(m, n, thr,
                    [dev EXCEPT ![t].running = (warning_value # CAPTURE_STOPPED_WARNING)],
                    FALSE, {})

\* ------------------------------------------------------------ specifications
InitFor(cs, flows, fws) ==
    /\ flow \in flows
    /\ fw \in (IF flow = "analog" THEN fws ELSE {Max(fws)})
    /\ callers = cs
    /\ self = InitSelf
    /\ callbacks = (flow = "lissajous")
    /\ thr = [k \in CallerIds \cup SpawnIds |-> IdleThread(k)]
    /\ wd = [w \in Sessions |-> NoWatchdog]
    /\ dev = [t \in Trackers |-> IdleDevice]
    /\ h = InitHistory

\* one application thread drives the orchestrator
LaterUnused ==
    /\ meas = Unused /\ handler = Unused /\ blobs = Unused /\ xform = Unused
    /\ lastpkt = Unused
LibraryUnused == trie = Unused /\ regs = Unused /\ pkts = Unused /\ LaterUnused

Init == InitFor({1}, {"analog", "lissajous"}, FirmwareMinors) /\ LibraryUnused

Next ==
    \/ \E c \in callers : \E a \in SessionArgs(flow) : sample_enter(c, a)
    \/ \E c \in callers : sample_join(c)
    \/ \E c \in callers : sample_init(c)
    \/ \E k \in CallerIds \cup SpawnIds : start_next_tracker_empty(k)
    \/ \E k \in CallerIds \cup SpawnIds : start_next_tracker_configure(k)
    \/ \E k \in CallerIds \cup SpawnIds : start_next_tracker_configure_fails(k)
    \/ \E k \in CallerIds \cup SpawnIds : start_next_tracker_start(k)
    \/ \E k \in CallerIds \cup SpawnIds : start_next_tracker_start_fails(k)
    \/ caller_stop
    \/ \E w \in Sessions : timeout_begin_wait(w)
    \/ \E w \in Sessions : timeout_expires(w)
    \/ \E w \in Sessions : timeout_stop_all(w)
    \/ \E w \in Sessions : timeout_dispatch(w)
    \/ \E t \in Trackers : \E serial \in BOOLEAN : dev_sample(t, serial)
    \/ \E t \in Trackers : dev_window(t)
    \/ \E t \in Trackers : \E ch \in {SPARE_1, SPARE_2} : dev_channel_window(t, ch)
    \/ \E t \in Trackers : \E ch \in {SPARE_1, SPARE_2} :
         \E ev \in {WINDOW_MEGASAMPLE_TRIGGER_ERROR, COLLECTION_ERROR} :
            dev_channel_error(t, ch, ev)
    \/ \E t \in Trackers : dev_error(t)
    \/ \E t \in Trackers : dev_end_of_capture(t)
    \/ \E t \in Trackers : dev_lissajous_error(t)
    \/ \E t \in Trackers : \E w \in {OVERFLOW_WARNING, CAPTURE_STOPPED_WARNING} :
         dev_warning(t, w)

Spec == Init /\ [][Next]_vars

\* two application threads call sample() on the same AnalogCollection
ConcurrentArgs == {a \in AnalogArgs : a.channel = RINGDOWN}

InitConcurrent == InitFor({1, 2}, {"analog"}, {Max(FirmwareMinors)}) /\ LibraryUnused

NextConcurrent ==
    \/ \E c \in callers : \E a \in ConcurrentArgs : sample_enter(c, a)
    \/ \E c \in callers : sample_join(c)
    \/ \E c \in callers : sample_init(c)
    \/ \E k \in CallerIds \cup SpawnIds : start_next_tracker_empty(k)
    \/ \E k \in CallerIds \cup SpawnIds : start_next_tracker_configure(k)
    \/ \E k \in CallerIds \cup SpawnIds : start_next_tracker_configure_fails(k)
    \/ \E k \in CallerIds \cup SpawnIds : start_next_tracker_start(k)
    \/ \E k \in CallerIds \cup SpawnIds : start_next_tracker_start_fails(k)
    \/ caller_stop
    \/ \E w \in Sessions : timeout_begin_wait(w)
    \/ \E w \in Sessions : timeout_expires(w)
    \/ \E w \in Sessions : timeout_stop_all(w)
    \/ \E w \in Sessions : timeout_dispatch(w)
    \/ \E t \in Trackers : \E serial \in BOOLEAN : dev_sample(t, serial)
    \/ \E t \in Trackers : dev_error(t)

SpecConcurrent == InitConcurrent /\ [][NextConcurrent]_vars

\* ------------------------------------------------------------ properties
InSession == cur \in Sessions
WatchdogPc == IF InSession THEN wd[cur].pc ELSE "none"
WatchdogExited == WatchdogPc = "dead"
CallsOf(kind) == SelectSeq(h.cb, LAMBDA e : e.cb = kind)
ErrorCalls == CallsOf("error")
DoneCalls == CallsOf("done")
\* ------------------------------------------------------------ claims
\* C1: in AnalogCollection, sample(channel, trackers={0,1}) with tracker 1
\* never completing and no error recorded: once the watchdog has woken by
\* timeout and exited, error_cb was called exactly once, with the
\* incomplete-collection error, and api.stop was called for trackers 0 and 1.
C1_Scenario ==
    /\ flow = "analog"
    /\ WatchdogExited
    /\ h.req = {0, 1}
    /\ 1 \notin h.completed
    /\ ~h.faults
    /\ ~wd[cur].notified
C1_TimeoutReportsIncompleteOnce ==
    C1_Scenario =>
        /\ ErrorCalls = <<[cb |-> "error", arg |-> IncompleteError]>>
        /\ {0, 1} \subseteq h.stopIssued
C1_Witness == C1_Scenario /\ 0 \in h.completed /\ Len(ErrorCalls) = 1

\* C2: the error callback is invoked at most once per session, and never for
\* a session that completed cleanly: every requested tracker had completed
\* and no error was recorded when the watchdog woke, nor afterwards.
C2_ErrorOnceAndNeverWhenClean ==
    /\ Len(ErrorCalls) <= 1
    /\ (h.cleanAtWake /\ ~h.recorded) => ErrorCalls = <<>>

\* C3: after the device reported a runtime error for a tracker (not the
\* trigger-threshold carve-out) no tracker of that session is configured or
\* started, and the session ends with that error given to error_cb.
RuntimeErrorRecorded == self.error[1] = "runtime"
ConfigureOrStartStep ==
    \E k \in CallerIds \cup SpawnIds :
       \/ thr[k].pc = "configure" /\ thr'[k].pc = "start"
       \/ thr[k].pc = "start" /\ thr'[k].pc # "start"
C3_RuntimeErrorAbortsSession ==
    /\ [][(RuntimeErrorRecorded /\ self'.timer = self.timer)
             => ~ConfigureOrStartStep]_vars
    /\ []((WatchdogExited /\ RuntimeErrorRecorded)
             => ErrorCalls = <<[cb |-> "error", arg |-> self.error]>>)

\* C4: a two-channel window session in which one channel reported the
\* trigger-threshold error and the other its window, nothing else failing:
\* done_cb is called once, with the reporting channel's values and (0,0,0)
\* for the other channel, no error is recorded, and when that happened
\* before the watchdog woke error_cb is not called.
Other(ch) == IF ch = SPARE_1 THEN SPARE_2 ELSE SPARE_1
C4_Scenario(t, b) ==
    /\ flow = "analog"
    /\ h.args.channel = SPARE_1_AND_SPARE_2 /\ h.args.megasample
    /\ h.req = {t}
    /\ h.pk = {<<t, b, "trigger">>, <<t, Other(b), "window">>}
    /\ ~h.faults
C4_TriggerErrorCarveOut ==
    \A t \in Trackers : \A b \in {SPARE_1, SPARE_2} :
       C4_Scenario(t, b) =>
          /\ Len(DoneCalls) = 1
          /\ DOMAIN DoneCalls[1].arg = {SPARE_1, SPARE_2}
          /\ DoneCalls[1].arg[b] = <<0, 0, 0>>
          /\ DoneCalls[1].arg[Other(b)] \in {WindowEntry(self, d) : d \in WindowPayloads}
          /\ DoneCalls[1].arg[Other(b)] # <<0, 0, 0>>
          /\ ~h.recorded
          /\ h.cleanAtWake => ErrorCalls = <<>>
C4_Witness ==
    /\ C4_Scenario(0, SPARE_2)
    /\ WatchdogExited /\ wd[cur].notified
    /\ Len(DoneCalls) = 1 /\ ErrorCalls = <<>>

\* C5: sample()/capture() initialises the new session only when no watchdog
\* thread is running.
C5_SingleFlight ==
    [][\A c \in CallerIds :
          (thr[c].pc = "init" /\ thr'[c].pc = "configure")
             => \A w \in Sessions : wd[w].pc \in {"none", "dead"}]_vars

\* C6: at most one tracker is in the Acquiring state (started, and neither
\* removed from the pending set nor stopped since).
C6_OneTrackerAcquiring == Cardinality(h.acquiring) <= 1

\* C7: a step of _start_next_tracker in which the configuration fails records
\* the configuration error for that tracker, notifies the condition and ends
\* the call without issuing start; a configuration that needs a register the
\* firmware lacks never proceeds to start.
ConfigureEnds(k) == thr[k].pc = "configure" /\ thr'[k].pc # "configure"
C8_StopIssuedToAll ==
    WatchdogPc \in {"dispatch", "dead"} => h.stopIssued = h.req
C8_Witness ==
    /\ WatchdogExited
    /\ h.req = {0, 1} /\ h.stopIssued = {0, 1}
    /\ dev[0].running /\ 0 \notin h.acquiring
    /\ ~dev[1].running

\* C9: in a sampling session that received sample packets only, a tracker
\* whose sample counter reached the expected count has been removed from the
\* pending set; done_cb is called at most once, and once every tracker has
\* delivered its samples the condition has been notified and done_cb has been
\* called exactly once; in the first session of a connection, where every
\* packet belongs to the session, its argument is the full sample buffers.
SamplesOnly == flow = "analog" /\ InSession /\ ~self.megasampling /\ h.pk = {}
Delivered(t) == self.num_samples_collected[t] >= self.num_samples_expected
FullBuffer == [i \in 1..SampleCount |-> Max(SampleValues)]
C9_CompletionAtExpectedCount ==
    SamplesOnly =>
       /\ Len(DoneCalls) <= 1
       /\ \A t \in h.req : Delivered(t) <=> t \in h.completed
       /\ \A t \in h.req : Delivered(t) => t \notin self.expected_trackers
       /\ (\A t \in h.req : Delivered(t)) =>
             /\ "complete" \in h.sig
             /\ Len(DoneCalls) = 1
             /\ (cur = 1 /\ self.channel = RINGDOWN)
                  => DoneCalls[1].arg = [t \in h.req |-> FullBuffer]
             /\ (cur = 1 /\ self.channel # RINGDOWN)
                  => DoneCalls[1].arg =
                        [i \in 1..SampleCount |->
                           adc_result_to_voltage(self, Max(SampleValues),
                                                 RINGDOWN_SAMPLE_RESOLUTION)]
C9_Witness ==
    /\ SamplesOnly
    /\ h.req = {0, 1} /\ Delivered(0) /\ Delivered(1)
    /\ cur = 1 /\ self.channel = RINGDOWN
    /\ wd[cur].notified /\ WatchdogExited
    /\ Len(DoneCalls) = 1 /\ ErrorCalls = <<>>

Bytes == {1, 2}
\* elements of a registered header
MaxHeaderLen == 3
\* bytes of a packet handed to from_pkt
MaxPacketLen == 4
\* subclasses of ApiPacket defined
MaxRegistrations == 2
\* Wildcard.WILDCARD.value, '*': a key that is no byte value
WILDCARD == 256
\* ApiPacket._MAX_PREFIX_LENGTH
MAX_PREFIX_LENGTH == 6

SeqsUpTo(S, n) == UNION {[1..k -> S] : k \in 0..n}
Headers == SeqsUpTo(Bytes \cup {WILDCARD}, MaxHeaderLen) \ {<<>>}
Packets == SeqsUpTo(Bytes, MaxPacketLen)

Dict == <<"dict", 0>>
Leaf(value) == <<"leaf", value>>
KeyError == <<"KeyError", 0>>
ValueError == <<"ValueError", 0>>
NoResult == <<"none", 0>>
\* Trie.__init__: self._root = {}
EmptyTrie == (<<>> :> Dict)

\* the loop of Trie.add from the node at path on; node.setdefault raises
\* AttributeError when the node is a registered value and not a dictionary
RECURSIVE AddFrom(_, _, _, _)
AddFrom(t, path, rest, value) ==
    IF rest = <<>> THEN [root |-> t, raised |-> "none"]
    ELSE IF t[path] # Dict THEN [root |-> t, raised |-> "AttributeError"]
    ELSE LET child == Append(path, Head(rest))
             t1 == IF child \in DOMAIN t THEN t
                   ELSE (child :> IF Len(rest) = 1 THEN Leaf(value) ELSE Dict) @@ t
         IN  AddFrom(t1, child, Tail(rest), value)

add(t, prefix, value) == AddFrom(t, <<>>, prefix, value)

\* the loop of Trie.get from the node at path on
RECURSIVE GetFrom(_, _, _)
GetFrom(t, path, rest) ==
    IF rest = <<>> THEN KeyError
    ELSE LET exact == Append(path, Head(rest))
             wild == Append(path, WILDCARD)
         IN  IF exact \notin DOMAIN t /\ wild \notin DOMAIN t THEN KeyError
             ELSE LET node == IF exact \in DOMAIN t THEN exact ELSE wild
                  IN  IF t[node] # Dict THEN t[node]
                      ELSE GetFrom(t, node, Tail(rest))

\* variant: a walk that uses up the sequence returns the node it stands on
RECURSIVE GetFromReturnsNode(_, _, _)
GetFromReturnsNode(t, path, rest) ==
    IF rest = <<>> THEN t[path]
    ELSE LET exact == Append(path, Head(rest))
             wild == Append(path, WILDCARD)
         IN  IF exact \notin DOMAIN t /\ wild \notin DOMAIN t THEN KeyError
             ELSE LET node == IF exact \in DOMAIN t THEN exact ELSE wild
                  IN  IF t[node] # Dict THEN t[node]
                      ELSE GetFromReturnsNode(t, node, Tail(rest))

get_returns_node(t, prefix) == GetFromReturnsNode(t, <<>>, prefix)

get(t, prefix) == GetFrom(t, <<>>, prefix)

\* ApiPacket.from_pkt up to the choice of the subclass
from_pkt_prefix(pkt) == SubSeq(pkt, 1, Min({MAX_PREFIX_LENGTH, Len(pkt)}))
from_pkt(t, pkt) ==
    LET found == get(t, from_pkt_prefix(pkt))
    IN  IF found = KeyError THEN ValueError ELSE found

NoLookup == [pkt |-> <<>>, got |-> NoResult, result |-> NoResult]

\* class X(ApiPacket, header=...): the n-th subclass registers itself
init_subclass(header) ==
    /\ Len(trie.log) < MaxRegistrations
    /\ LET r == add(trie.root, header, Len(trie.log) + 1)
       IN  trie' = [root |-> r.root,
                    log |-> Append(trie.log, [header |-> header, raised |-> r.raised]),
                    look |-> NoLookup]
    /\ UNCHANGED <<orchestrator, later, regs, pkts>>

\* ApiPacket.from_pkt(pkt) on the registry as it stands
lookup(pkt) ==
    /\ trie' = [trie EXCEPT !.look = [pkt |-> pkt,
                                      got |-> get(trie.root, from_pkt_prefix(pkt)),
                                      result |-> from_pkt(trie.root, pkt)]]
    /\ UNCHANGED <<orchestrator, later, regs, pkts>>

InitTrie ==
    /\ InitFor({1}, {"analog"}, {Max(FirmwareMinors)})
    /\ trie = [root |-> EmptyTrie, log |-> <<>>, look |-> NoLookup]
    /\ regs = Unused /\ pkts = Unused /\ LaterUnused

NextTrie ==
    \/ \E header \in Headers : init_subclass(header)
    \/ \E pkt \in Packets : lookup(pkt)

SpecTrie == InitTrie /\ [][NextTrie]_vars

\* ================================================================ packet framing
\* Part II(c).  packet.PacketV3Factory.construct_from_raw on a received buffer.
V3_PREFIX == 160
PT_STREAM == 2
PT_ERROR == 3
PT_HIGH_PRIORITY_STREAM == 5
MaxBufferLen == 4
\* 0xa0, a routing byte (src 3, dst 2), STREAM, ERROR, ext | HIGH_PRIORITY_STREAM, 0xa1
BufferBytes == {V3_PREFIX, 35, PT_STREAM, PT_ERROR, 133, 161}
Buffers == SeqsUpTo(BufferBytes, MaxBufferLen)

RECURSIVE BitAnd(_, _)
BitAnd(a, b) ==
    IF a = 0 \/ b = 0 THEN 0
    ELSE (IF a % 2 = 1 /\ b % 2 = 1 THEN 1 ELSE 0) + 2 * BitAnd(a \div 2, b \div 2)

\* struct.unpack_from('<H', packet_data, pkt_offset): struct.error when fewer
\* than two bytes follow the offset
unpack_from_raises(packet_data, pkt_offset) == Len(packet_data) < pkt_offset + 2
unpack_from_H(packet_data, pkt_offset) ==
    packet_data[pkt_offset + 1] + 256 * packet_data[pkt_offset + 2]
\* PacketMetadataV2.Metadata: the bit fields of the 16-bit word, lowest first
MetadataFields(word) ==
    [src_id |-> word % 16,
     dst_id |-> (word \div 16) % 16,
     pkttype |-> (word \div 256) % 128,
     ext |-> (word \div 32768) % 2]
\* PacketMetadataV2.header_len (the variant gives every packet a two-byte header)
header_len_two(stream) == 2
header_len(stream) == IF stream THEN 1 ELSE 2
PacketMetadataV2(packet_data, pkt_offset) ==
    LET fields == MetadataFields(unpack_from_H(packet_data, pkt_offset))
        stream == fields.pkttype \in {PT_STREAM, PT_HIGH_PRIORITY_STREAM}
    IN  [class |-> "PacketMetadataV2",
         src_id |-> fields.src_id,
         dst_id |-> fields.dst_id,
         stream |-> stream,
         error |-> fields.pkttype = PT_ERROR,
         high_priority |-> fields.pkttype # PT_STREAM,
         header_len |-> header_len(stream)]
\* PublicPacketMetadata
PublicPacketMetadata(packet_data) ==
    LET is_stream == /\ BitAnd(packet_data[1], 160) # 128
                     /\ packet_data[1] # 161
                     /\ packet_data[1] # 174
    IN  [class |-> "PublicPacketMetadata",
         src_id |-> 0,
         dst_id |-> 0,
         stream |-> is_stream,
         error |-> FALSE,
         high_priority |-> ~is_stream \/ packet_data[1] = 163 \/ packet_data[1] = 2,
         header_len |-> 1]
\* Packet.__init__ and the header and payload properties
Packet(packet_data, metadata, header_offset) ==
    [raised |-> "none",
     packet_data |-> packet_data,
     metadata |-> metadata,
     header_offset |-> header_offset,
     header_len |-> metadata.header_len]
Raises(packet_data, exception) == [raised |-> exception, packet_data |-> packet_data]
Slice(data, from, to) == SubSeq(data, Min({from, Len(data)}) + 1, Min({to, Len(data)}))
Packet_header(pkt) == Slice(pkt.packet_data, pkt.header_offset, pkt.header_offset + pkt.header_len)
Packet_payload(pkt) == Slice(pkt.packet_data, pkt.header_offset + pkt.header_len, Len(pkt.packet_data))
\* PacketV2inV3Factory: metadata_length = 2 + 1, _pkt_prefix = b'\xa0'
V2inV3_construct_from_raw(packet_data) ==
    IF unpack_from_raises(packet_data, 1) THEN Raises(packet_data, "struct.error")
    ELSE Packet(packet_data, PacketMetadataV2(packet_data, 1), 2 + 1)
\* PublicPacketFactory.construct_from_raw
Public_construct_from_raw(packet_data) ==
    Packet(packet_data, PublicPacketMetadata(packet_data), 0)
\* PacketV3Factory.construct_from_raw
construct_from_raw(packet_data) ==
    IF packet_data = <<>> THEN Raises(packet_data, "IndexError")
    ELSE IF packet_data[1] = V3_PREFIX THEN V2inV3_construct_from_raw(packet_data)
    ELSE Public_construct_from_raw(packet_data)

Received(packet_data) == [raised |-> "received", packet_data |-> packet_data]
InitPacket ==
    /\ InitFor({1}, {"analog"}, {Max(FirmwareMinors)})
    /\ trie = Unused /\ regs = Unused /\ LaterUnused
    /\ \E packet_data \in Buffers : pkts = Received(packet_data)
Classify ==
    /\ pkts.raised = "received"
    /\ pkts' = construct_from_raw(pkts.packet_data)
    /\ UNCHANGED <<orchestrator, later, trie, regs>>
NextPacket == Classify
SpecPacket == InitPacket /\ [][NextPacket]_vars

\* ------------------------------------------------------------ registry properties
Registered == DOMAIN trie.log
HeaderOf(n) == trie.log[n].header
Looked == trie.look.got # NoResult
\* the header, wildcards matching any byte, is a prefix of the sequence
Matches(header, pkt) ==
    /\ Len(header) <= Len(pkt)
    /\ \A i \in 1..Len(header) : header[i] \in {pkt[i], WILDCARD}
StrictPrefix(a, b) == Len(a) < Len(b) /\ SubSeq(b, 1, Len(a)) = a
\* every subclass defined so far sits in the trie under its own header
AllRegistered ==
    \A n \in Registered :
       /\ trie.log[n].raised = "none"
       /\ HeaderOf(n) \in DOMAIN trie.root
       /\ trie.root[HeaderOf(n)] = Leaf(n)

\* C11: when the header of one registered subclass is a strict prefix of
\* the header of another, in either order of registration, the lookup of a
\* sequence that extends the longer header returns the longer header's
\* subclass.
C11_LongestPrefix ==
    \A i \in Registered : \A j \in Registered :
       (/\ StrictPrefix(HeaderOf(i), HeaderOf(j))
        /\ Looked
        /\ StrictPrefix(HeaderOf(j), trie.look.pkt) \/ HeaderOf(j) = trie.look.pkt)
          => trie.look.got = Leaf(j)

\* C12: when every subclass is in the trie under its header and the looked-up
\* sequence agrees with one of the headers at every position that is not a
\* wildcard, the lookup returns a subclass whose header matches the sequence.
C12_WildcardMatches ==
    (/\ Looked
     /\ AllRegistered
     /\ \E n \in Registered : Matches(HeaderOf(n), trie.look.pkt))
       => \E n \in Registered :
             trie.look.got = Leaf(n) /\ Matches(HeaderOf(n), trie.look.pkt)

\* C13: a lookup returns a registered value found on a path that matches the
\* sequence, or raises KeyError (ValueError out of from_pkt), and never returns
\* a dictionary; it raises for the empty sequence, for a sequence used up at
\* an interior node, for a sequence whose next byte has neither an exact nor
\* a wildcard edge, and whenever no registered path matches.
ExhaustedAtInterior(pkt) == pkt \in DOMAIN trie.root /\ trie.root[pkt] = Dict
NoEdgeFor(pkt) ==
    \E k \in 1..Len(pkt) :
       LET at == SubSeq(pkt, 1, k - 1)
       IN  /\ at \in DOMAIN trie.root /\ trie.root[at] = Dict
           /\ Append(at, pkt[k]) \notin DOMAIN trie.root
           /\ Append(at, WILDCARD) \notin DOMAIN trie.root
LeafPaths == {path \in DOMAIN trie.root : trie.root[path] # Dict}
C13_NotFound ==
    Looked =>
       /\ trie.look.got \in {KeyError} \cup {Leaf(n) : n \in Registered}
       /\ trie.look.got = KeyError <=> trie.look.result = ValueError
       /\ trie.look.got # KeyError => trie.look.result = trie.look.got
       /\ trie.look.got # KeyError =>
             \E path \in LeafPaths :
                trie.root[path] = trie.look.got /\ Matches(path, trie.look.pkt)
       /\ trie.look.pkt = <<>> => trie.look.got = KeyError
       /\ ExhaustedAtInterior(trie.look.pkt) => trie.look.got = KeyError
       /\ NoEdgeFor(trie.look.pkt) => trie.look.got = KeyError
       /\ (\A path \in LeafPaths : ~Matches(path, trie.look.pkt))
             => trie.look.got = KeyError
C13_Witness ==
    /\ Looked
    /\ trie.look.pkt # <<>> /\ ExhaustedAtInterior(trie.look.pkt)
    /\ \E n \in Registered : StrictPrefix(trie.look.pkt, HeaderOf(n))
    /\ trie.look.got = KeyError /\ trie.look.result = ValueError

\* ================================================================ register api
\* Part II(b).  RegisterApi over a register specification.  The specification
\* table and the wire library come from register_spec_defs and
\* capi.py.libregisterapi, which the repository does not carry; the table below
\* is one small instance built with RegisterSpec's constructor arguments, and a
\* wire transaction either succeeds or raises a communication error.
MEGALISA_X_MIN == <<"megalisa", "x_min">>
MEGALISA_X_MAX == <<"megalisa", "x_max">>
GENERAL1_GLINT_AND_PUPIL_PD1_GAINS == <<"general1", "glint_and_pupil_pd1_gains">>
SPEC_SERIAL_NUMBER == <<"spec", "serial_number">>
SPEC_ADC_REFERENCE_VOLTAGE == <<"spec", "adc_reference_voltage">>
RegisterNames ==
    {MEGALISA_X_MIN, MEGALISA_X_MAX, GENERAL1_GLINT_AND_PUPIL_PD1_GAINS,
     SPEC_SERIAL_NUMBER, SPEC_ADC_REFERENCE_VOLTAGE}

\* a version string after split('.'): three strings of decimal digits
VersionString(major, minor, patch) == <<major, minor, patch>>
FirmwareVersions ==
    {VersionString(<<0>>, <<9>>, <<0>>), VersionString(<<0>>, <<1, 0>>, <<0>>),
     VersionString(<<0>>, <<1, 0>>, <<1>>), VersionString(<<1>>, <<2>>, <<0>>)}

\* int(str) of a string of decimal digits
RECURSIVE int(_)
int(digits) ==
    IF digits = <<>> THEN 0
    ELSE 10 * int(SubSeq(digits, 1, Len(digits) - 1)) + digits[Len(digits)]
SemanticVersion(major, minor, patch) ==
    [major |-> int(major), minor |-> int(minor), patch |-> int(patch)]
from_string(version) == SemanticVersion(version[1], version[2], version[3])
\* SemanticVersion.compare
compare(ver1, ver2) ==
    IF ver1.major < ver2.major THEN -1
    ELSE IF ver1.major > ver2.major THEN 1
    ELSE IF ver1.minor < ver2.minor THEN -1
    ELSE IF ver1.minor > ver2.minor THEN 1
    ELSE IF ver1.patch < ver2.patch THEN -1
    ELSE IF ver1.patch > ver2.patch THEN 1
    ELSE 0

\* ValidateRange(min_val, max_val) and one entry of RegisterSpec.parts
ValidateRange(min_val, max_val) == [min_val |-> min_val, max_val |-> max_val]
Part(offset, length, validators) ==
    [offset |-> offset, length |-> length, validators |-> validators]
RegisterSpec(name, version, type, size, parts) ==
    [name |-> name, version |-> version, type |-> type, size |-> size, parts |-> parts]
WholeWord(validators) == <<Part(0, 32, validators)>>
reg_specs ==
    [name \in RegisterNames |->
       CASE name = MEGALISA_X_MIN ->
              RegisterSpec(name, VersionString(<<0>>, <<0>>, <<0>>), "uint", 1,
                           WholeWord(<<ValidateRange(0, 2)>>))
         [] name = MEGALISA_X_MAX ->
              RegisterSpec(name, VersionString(<<0>>, <<0>>, <<0>>), "uint", 1,
                           WholeWord(<<ValidateRange(0, 2)>>))
         [] name = GENERAL1_GLINT_AND_PUPIL_PD1_GAINS ->
              RegisterSpec(name, VersionString(<<0>>, <<0>>, <<0>>), "uint", 1,
                           <<Part(0, 2, <<ValidateRange(0, 3)>>),
                             Part(2, 2, <<ValidateRange(0, 3)>>)>>)
         [] name = SPEC_SERIAL_NUMBER ->
              RegisterSpec(name, VersionString(<<1>>, <<0>>, <<0>>), "str", 2,
                           WholeWord(<<>>))
         [] name = SPEC_ADC_REFERENCE_VOLTAGE ->
              RegisterSpec(name, VersionString(<<0>>, <<1, 0>>, <<1>>), "uint", 1,
                           WholeWord(<<>>))]

\* values a caller passes to set_register, by register
NUL == 0
UserValues(name) ==
    CASE name = MEGALISA_X_MIN -> {-1, 1, 3}
      [] name = MEGALISA_X_MAX -> {2, 3}
      [] name = GENERAL1_GLINT_AND_PUPIL_PD1_GAINS ->
           [1..2 -> {0, 7}] \cup {<<2, 1>>, <<1>>}
      [] name = SPEC_SERIAL_NUMBER -> {<<1, 2, 1, 2, 1>>}
      [] name = SPEC_ADC_REFERENCE_VOLTAGE -> {1}
MaxWireOps == 2
WireFailures == SUBSET (1..MaxWireOps)

\* bit operations on the non-negative integers below 2^31 the model uses
Shl(x, n) == x * 2^n
Shr(x, n) == x \div 2^n
LowBits(x, n) == IF n >= 31 THEN x ELSE x % 2^n
RECURSIVE BitOr(_, _)
BitOr(a, b) ==
    IF a = 0 THEN b
    ELSE IF b = 0 THEN a
    ELSE (IF a % 2 = 1 \/ b % 2 = 1 THEN 1 ELSE 0) + 2 * BitOr(a \div 2, b \div 2)

\* RegisterSpec._handle_input_size: a list of one value per part, or ValueError
handle_input_size(spec, value) ==
    IF Len(spec.parts) = 1 THEN [raised |-> "none", value |-> <<value>>]
    ELSE IF Len(value) # Len(spec.parts) THEN [raised |-> "ValueError", value |-> value]
    ELSE [raised |-> "none", value |-> value]
\* ValidateRange.validate and RegisterSpec.validate: TRUE when ValueError is raised
RangeRejects(validator, value) == validator.min_val > value \/ validator.max_val < value
validate(spec, value) ==
    LET sized == handle_input_size(spec, value)
    IN  \/ sized.raised # "none"
        \/ \E idx \in 1..Len(spec.parts) :
              \E v \in 1..Len(spec.parts[idx].validators) :
                 RangeRejects(spec.parts[idx].validators[v], sized.value[idx])
\* RegisterSpec.transform (the registers of the table have no transformers)
RECURSIVE TransformFrom(_, _, _, _)
TransformFrom(spec, value, idx, reg_value) ==
    IF idx > Len(spec.parts) THEN reg_value
    ELSE IF spec.type = "uint"
         THEN TransformFrom(spec, value, idx + 1,
                            BitOr(reg_value, Shl(value[idx], spec.parts[idx].offset)))
         ELSE TransformFrom(spec, value, idx + 1, value[idx])
transform(spec, value) ==
    LET sized == handle_input_size(spec, value)
    IN  IF sized.raised # "none" THEN [raised |-> sized.raised, reg_value |-> 0]
        ELSE [raised |-> "none", reg_value |-> TransformFrom(spec, sized.value, 1, 0)]
\* RegisterSpec.invert
invert_part(spec, reg_value, idx) ==
    IF spec.type = "uint"
    THEN LET part == spec.parts[idx]
             masked == LowBits(reg_value, part.offset + part.length)
         IN  Shr(masked, part.offset)
    ELSE reg_value
invert(spec, reg_value) ==
    LET values == [idx \in 1..Len(spec.parts) |-> invert_part(spec, reg_value, idx)]
    IN  IF Len(spec.parts) = 1 THEN values[1] ELSE values
\* struct.pack('I', data) raises struct.error outside 0..2^32-1; every value of
\* the model is below 2^31
pack_raises(spec, data) == spec.type = "uint" /\ data < 0

\* variant: the patch number left out of the comparison
check_compatibility_without_patch(api_version, spec) ==
    LET v == from_string(spec.version)
    IN  \/ api_version.major < v.major
        \/ api_version.major = v.major /\ api_version.minor < v.minor
\* RegisterApi._check_compatibility: TRUE when MinimumAPIVersion is raised
check_compatibility(api_version, spec) ==
    compare(api_version, from_string(spec.version)) < 0
\* f'{value:\0<{size * 4}}' and the chunk written at one offset
RECURSIVE Padded(_, _)
Padded(value, width) == IF Len(value) >= width THEN value ELSE Padded(Append(value, NUL), width)
Chunk(padded, offset) ==
    SubSeq(padded, offset * 4 + 1, Min({offset * 4 + 4, Len(padded)}))
RECURSIVE RStrip(_)
RStrip(text) ==
    IF text # <<>> /\ text[Len(text)] = NUL THEN RStrip(SubSeq(text, 1, Len(text) - 1))
    ELSE text

\* one libregisterapi transaction: the k-th of the call fails when k \in fails
WireOp(op, name, offset, data, ok) ==
    [op |-> op, name |-> name, offset |-> offset, data |-> data, ok |-> ok]
Outcome(raised, device, wire, value) ==
    [raised |-> raised, dev |-> device, wire |-> wire, value |-> value]
NoValue == <<"none">>

\* the loop of set_register over the words of a str/bytes register
RECURSIVE WriteWords(_, _, _, _, _, _)
WriteWords(device, name, padded, offset, wire, fails) ==
    IF offset >= reg_specs[name].size THEN Outcome("none", device, wire, NoValue)
    ELSE LET data == Chunk(padded, offset)
             ok == (Len(wire) + 1) \notin fails
             wire1 == Append(wire, WireOp("write", name, offset, data, ok))
         IN  IF ~ok THEN Outcome("CommunicationError", device, wire1, NoValue)
             ELSE WriteWords([device EXCEPT ![name][offset + 1] = data],
                             name, padded, offset + 1, wire1, fails)
\* RegisterApi.set_register; wire holds the transactions already made
set_register(api_version, device, name, value, wire, fails) ==
    LET spec == reg_specs[name]
        t == transform(spec, value)
    IN  IF check_compatibility(api_version, spec)
        THEN Outcome("MinimumAPIVersion", device, wire, NoValue)
        ELSE IF t.raised # "none" THEN Outcome(t.raised, device, wire, NoValue)
        ELSE IF spec.type \in {"str", "bytes"}
        THEN WriteWords(device, name, Padded(value, spec.size * 4), 0, wire, fails)
        ELSE IF pack_raises(spec, t.reg_value) THEN Outcome("struct.error", device, wire, NoValue)
        ELSE LET ok == (Len(wire) + 1) \notin fails
                 wire1 == Append(wire, WireOp("write", name, 0, t.reg_value, ok))
             IN  IF ~ok THEN Outcome("CommunicationError", device, wire1, NoValue)
                 ELSE Outcome("none", [device EXCEPT ![name] = t.reg_value], wire1, NoValue)
\* the loop of get_register over the words of a str/bytes register
RECURSIVE ReadWords(_, _, _, _, _, _)
ReadWords(device, name, offset, reg_value, wire, fails) ==
    IF offset >= reg_specs[name].size THEN Outcome("none", device, wire, reg_value)
    ELSE LET ok == (Len(wire) + 1) \notin fails
             wire1 == Append(wire, WireOp("read", name, offset, device[name][offset + 1], ok))
         IN  IF ~ok THEN Outcome("CommunicationError", device, wire1, NoValue)
             ELSE ReadWords(device, name, offset + 1, reg_value \o device[name][offset + 1],
                            wire1, fails)
\* RegisterApi.get_register
get_register(api_version, device, name, wire, fails) ==
    LET spec == reg_specs[name]
    IN  IF check_compatibility(api_version, spec)
        THEN Outcome("MinimumAPIVersion", device, wire, NoValue)
        ELSE IF spec.type \in {"str", "bytes"}
        THEN LET r == ReadWords(device, name, 0, <<>>, wire, fails)
             IN  IF r.raised # "none" THEN r
                 ELSE Outcome("none", device, r.wire,
                              invert(spec, IF spec.type = "str" THEN RStrip(r.value)
                                           ELSE r.value))
        ELSE LET ok == (Len(wire) + 1) \notin fails
                 wire1 == Append(wire, WireOp("read", name, 0, device[name], ok))
             IN  IF ~ok THEN Outcome("CommunicationError", device, wire1, NoValue)
                 ELSE Outcome("none", device, wire1, invert(spec, device[name]))

\* registers as the device holds them after power-up
DefaultWords(name) ==
    IF reg_specs[name].type \in {"str", "bytes"}
    THEN [offset \in 1..reg_specs[name].size |-> <<NUL, NUL, NUL, NUL>>]
    ELSE 0
NoCall == [op |-> "none"]
InitRegisterApi ==
    \E text \in FirmwareVersions :
       regs = [api_version |-> from_string(text),
               dev |-> [name \in RegisterNames |-> DefaultWords(name)],
               call |-> NoCall]

CallSetRegister(name, value, fails) ==
    \E r \in {set_register(regs.api_version, regs.dev, name, value, <<>>, fails)} :
       /\ regs' = [regs EXCEPT !.dev = r.dev,
                               !.call = [op |-> "set_register", name |-> name,
                                         value |-> value, before |-> regs.dev,
                                         raised |-> r.raised, wire |-> r.wire,
                                         result |-> r.value]]
       /\ UNCHANGED <<orchestrator, later, trie, pkts>>
CallGetRegister(name, fails) ==
    \E r \in {get_register(regs.api_version, regs.dev, name, <<>>, fails)} :
       /\ regs' = [regs EXCEPT !.call = [op |-> "get_register", name |-> name,
                                         value |-> NoValue, before |-> regs.dev,
                                         raised |-> r.raised, wire |-> r.wire,
                                         result |-> r.value]]
       /\ UNCHANGED <<orchestrator, later, trie, pkts>>

InitRegister ==
    /\ InitFor({1}, {"analog"}, {Max(FirmwareMinors)})
    /\ InitRegisterApi
    /\ trie = Unused /\ pkts = Unused /\ LaterUnused
NextRegister ==
    \/ \E name \in RegisterNames : \E value \in UserValues(name) :
          \E fails \in WireFailures : CallSetRegister(name, value, fails)
    \/ \E name \in RegisterNames : \E fails \in WireFailures : CallGetRegister(name, fails)
SpecRegister == InitRegister /\ [][NextRegister]_vars

\* ------------------------------------------------------------ rollback
\* configmap.cache_and_restore around the two writes of TrackerSize.write.
MaxRollbackOps == 6
MaxFailures == 2
RollbackFailures == {fails \in SUBSET (1..MaxRollbackOps) : Cardinality(fails) <= MaxFailures}
\* min_val and max_val as TrackerSize.write computes them from the mean and the size
SizeValues == {-1, 1, 3}
size_reglist == <<MEGALISA_X_MIN, MEGALISA_X_MAX>>
Phase(raised, device, wire, cache) ==
    [raised |-> raised, dev |-> device, wire |-> wire, cache |-> cache]
\* cache = []; for reg in reglist: cache.append(regapi.get_register(reg, tracker_id))
RECURSIVE SnapshotFrom(_, _, _, _, _, _)
SnapshotFrom(api_version, device, reglist, cache, wire, fails) ==
    IF Len(cache) = Len(reglist) THEN Phase("none", device, wire, cache)
    ELSE LET r == get_register(api_version, device, reglist[Len(cache) + 1], wire, fails)
         IN  IF r.raised # "none" THEN Phase(r.raised, device, r.wire, cache)
             ELSE SnapshotFrom(api_version, device, reglist, Append(cache, r.value),
                               r.wire, fails)
\* the guarded scope: set_register(min_reg, min_val); set_register(max_reg, max_val)
size_writes(api_version, device, min_val, max_val, wire, fails) ==
    LET first == set_register(api_version, device, size_reglist[1], min_val, wire, fails)
    IN  IF first.raised # "none" THEN first
        ELSE set_register(api_version, first.dev, size_reglist[2], max_val, first.wire, fails)
\* for reg, cache in zip(reglist, cache): regapi.set_register(reg, cache, tracker_id)
RECURSIVE RestoreFrom(_, _, _, _, _, _, _)
RestoreFrom(api_version, device, reglist, cache, idx, wire, fails) ==
    IF idx > Len(reglist) THEN Phase("none", device, wire, cache)
    ELSE LET r == set_register(api_version, device, reglist[idx], cache[idx], wire, fails)
         IN  IF r.raised # "none" THEN Phase(r.raised, r.dev, r.wire, cache)
             ELSE RestoreFrom(api_version, r.dev, reglist, cache, idx + 1, r.wire, fails)
\* an exception is told apart by its type and by where it was raised
Exception(kind, where) == <<kind, where>>
NoException == Exception("none", "none")
\* the outcome of TrackerSize.write: registers, transactions, cached values,
\* the exception of the scope and the exception that reaches the caller
SizeOutcome(last, cache, snapshot_ops, scope_ops, body_raised, raised) ==
    [dev |-> last.dev, wire |-> last.wire, cache |-> cache,
     snapshot_ops |-> snapshot_ops, scope_ops |-> scope_ops,
     body_raised |-> body_raised, raised |-> raised]
The(S) == CHOOSE x \in S : TRUE
\* except Exception: the restore loop, then raise
AfterRestore(snap, body, rest) ==
    SizeOutcome(rest, snap.cache, Len(snap.wire), Len(body.wire),
                Exception(body.raised, "scope"),
                IF rest.raised # "none" THEN Exception(rest.raised, "restore")
                ELSE Exception(body.raised, "scope"))
AfterScope(api_version, snap, body, fails) ==
    IF body.raised = "none"
    THEN SizeOutcome(body, snap.cache, Len(snap.wire), Len(body.wire),
                     NoException, NoException)
    ELSE The({AfterRestore(snap, body, rest) :
                 rest \in {RestoreFrom(api_version, body.dev, size_reglist, snap.cache, 1,
                                       body.wire, fails)}})
AfterSnapshot(api_version, snap, min_val, max_val, fails) ==
    IF snap.raised # "none"
    THEN SizeOutcome(snap, snap.cache, Len(snap.wire), Len(snap.wire),
                     NoException, Exception(snap.raised, "snapshot"))
    ELSE The({AfterScope(api_version, snap, body, fails) :
                 body \in {size_writes(api_version, snap.dev, min_val, max_val,
                                       snap.wire, fails)}})
\* TrackerSize.write for a config that is not a percentage
TrackerSize_write(api_version, device, min_val, max_val, fails) ==
    The({AfterSnapshot(api_version, snap, min_val, max_val, fails) :
            snap \in {SnapshotFrom(api_version, device, size_reglist, <<>>, <<>>, fails)}})

CallTrackerSizeWrite(min_val, max_val, fails) ==
    \E r \in {TrackerSize_write(regs.api_version, regs.dev, min_val, max_val, fails)} :
       /\ regs' = [regs EXCEPT !.dev = r.dev,
                               !.call = [op |-> "TrackerSize.write",
                                         value |-> <<min_val, max_val>>,
                                         before |-> regs.dev, cache |-> r.cache,
                                         wire |-> r.wire,
                                         snapshot_ops |-> r.snapshot_ops,
                                         scope_ops |-> r.scope_ops,
                                         body_raised |-> r.body_raised,
                                         raised |-> r.raised]]
       /\ UNCHANGED <<orchestrator, later, trie, pkts>>
NextRollback ==
    \E min_val \in SizeValues : \E max_val \in SizeValues :
       \E fails \in RollbackFailures : CallTrackerSizeWrite(min_val, max_val, fails)
SpecRollback == InitRegister /\ [][NextRollback]_vars

\* ------------------------------------------------------------ register properties
Called == regs.call.op # "none"
CalledSpec == reg_specs[regs.call.name]
\* the register's minimum version, read as three numbers, is above the firmware's
VersionNumbers(version) == <<int(version[1]), int(version[2]), int(version[3])>>
Exceeds(a, b) ==
    \/ a[1] > b[1]
    \/ a[1] = b[1] /\ a[2] > b[2]
    \/ a[1] = b[1] /\ a[2] = b[2] /\ a[3] > b[3]
Gated ==
    Exceeds(VersionNumbers(CalledSpec.version),
            <<regs.api_version.major, regs.api_version.minor, regs.api_version.patch>>)

\* C14: a set_register or get_register call on a register whose minimum
\* version is numerically above the firmware's api version raises
\* MinimumAPIVersion, makes no wire transaction and leaves the device's
\* registers as they were, whatever the register's type.
C14_VersionGate ==
    (Called /\ Gated) =>
       /\ regs.call.raised = "MinimumAPIVersion"
       /\ regs.call.wire = <<>>
       /\ regs.dev = regs.call.before
C14_Witness ==
    /\ Called /\ Gated
    /\ regs.call.op = "set_register"
    /\ CalledSpec.type = "str"
    /\ regs.call.raised = "MinimumAPIVersion"
    /\ \E name \in RegisterNames : regs.dev[name] # DefaultWords(name)

\* C15: a set_register call that passes the version gate with a value that
\* RegisterSpec.validate rejects (a part outside its declared range, or the
\* wrong number of parts) raises ValueError and writes nothing to the device.
C15_WriteValidates ==
    (/\ Called /\ regs.call.op = "set_register"
     /\ ~Gated
     /\ validate(CalledSpec, regs.call.value))
       => /\ regs.call.raised = "ValueError"
          /\ regs.call.wire = <<>>
          /\ regs.dev = regs.call.before

\* C18: after a set_register call on a multi-part register has written its
\* word, the bits from each part's offset up to offset plus length hold the
\* value given for that part, and inverting the word gives back the list of
\* part values that was written.
BitsOf(word, part) == Shr(word, part.offset) % 2^part.length
Written ==
    /\ Called /\ regs.call.op = "set_register"
    /\ regs.call.raised = "none"
C18_PartsRoundTrip ==
    (Written /\ Len(CalledSpec.parts) > 1) =>
       LET word == regs.dev[regs.call.name]
       IN  /\ \A idx \in 1..Len(CalledSpec.parts) :
                 BitsOf(word, CalledSpec.parts[idx]) = regs.call.value[idx]
           /\ invert(CalledSpec, word) = regs.call.value

\* ------------------------------------------------------------ rollback properties
Guarded == regs.call.op = "TrackerSize.write"
ScopeRaised == Guarded /\ regs.call.body_raised # NoException
ReadsBack(device, name) == invert(reg_specs[name], device[name])

\* C16: when the guarded writes of TrackerSize.write raise, every register of
\* the guarded list reads back afterwards the value it read before the call.
C16_AtomicRollback ==
    ScopeRaised =>
       \A i \in 1..Len(size_reglist) :
          ReadsBack(regs.dev, size_reglist[i]) = ReadsBack(regs.call.before, size_reglist[i])

\* C17: the helper reads every register of the list, in order, before any
\* write of the scope; when the scope raises it then writes each cached value
\* to its register in list order, and the exception that leaves the helper is
\* the one the scope raised.
SnapshotFirst ==
    /\ \A k \in 1..regs.call.snapshot_ops :
          /\ regs.call.wire[k].op = "read"
          /\ regs.call.wire[k].name = size_reglist[k]
    /\ \A k \in 1..Len(regs.call.wire) :
          regs.call.wire[k].op = "write" => k > Len(size_reglist)
    /\ regs.call.raised[2] # "snapshot" =>
          /\ regs.call.snapshot_ops = Len(size_reglist)
          /\ \A i \in 1..Len(size_reglist) :
                regs.call.cache[i] = ReadsBack(regs.call.before, size_reglist[i])
RestoredInOrder ==
    /\ Len(regs.call.wire) = regs.call.scope_ops + Len(size_reglist)
    /\ \A i \in 1..Len(size_reglist) :
          LET w == regs.call.wire[regs.call.scope_ops + i]
          IN  /\ w.op = "write" /\ w.ok
              /\ w.name = size_reglist[i]
              /\ w.data = regs.call.cache[i]
C17_SnapshotRestoreReraise ==
    Guarded =>
       /\ SnapshotFirst
       /\ ScopeRaised => (RestoredInOrder /\ regs.call.raised = regs.call.body_raised)

\* ------------------------------------------------------------ packet properties
Classified == pkts.raised # "received"
\* the buffer of the scenario: 0xa0, a routing word with src 3 and pkttype
\* STREAM, then any payload
StreamFromThree ==
    /\ Len(pkts.packet_data) >= 3
    /\ pkts.packet_data[1] = V3_PREFIX
    /\ pkts.packet_data[2] % 16 = 3
    /\ pkts.packet_data[3] % 128 = PT_STREAM

\* C19 (as stated): the scenario's buffer classifies as a stream packet, not
\* an error packet, from source id 3, with header length 3.
C19_HeaderLengthThree ==
    (Classified /\ StreamFromThree) =>
       /\ pkts.raised = "none"
       /\ pkts.metadata.stream /\ ~pkts.metadata.error
       /\ pkts.metadata.src_id = 3
       /\ pkts.header_len = 3
\* C19 (amended): the scenario's buffer classifies as a stream packet, not an
\* error packet, from source id 3; its metadata is 3 bytes long (the header
\* starts at offset 3), its header is the one byte at that offset and the
\* payload is what follows.
C19_StreamFromSourceThree ==
    (Classified /\ StreamFromThree) =>
       /\ pkts.raised = "none"
       /\ pkts.metadata.class = "PacketMetadataV2"
       /\ pkts.metadata.stream /\ ~pkts.metadata.error
       /\ pkts.metadata.src_id = 3
       /\ pkts.header_offset = 3
       /\ pkts.header_len = 1
       /\ Packet_header(pkts) = SubSeq(pkts.packet_data, 4, Min({4, Len(pkts.packet_data)}))
       /\ Packet_payload(pkts) = SubSeq(pkts.packet_data, 5, Len(pkts.packet_data))
C19_Witness ==
    /\ Classified /\ StreamFromThree
    /\ Len(pkts.packet_data) = 4
    /\ pkts.metadata.stream /\ pkts.metadata.src_id = 3
    /\ pkts.metadata.dst_id = 2
    /\ Packet_header(pkts) = <<pkts.packet_data[4]>>

\* C20: a buffer from which no Packet is built fails with UnsupportedPacket.
C20_UnsupportedPacket ==
    (Classified /\ pkts.raised # "none") => pkts.raised = "UnsupportedPacket"

\* ================================================================ Part III
\* Further properties of the orchestrators.

\* C25: in an AnalogCollection session done_cb and error_cb are never both
\* called, whatever the interleaving of the watchdog, the dispatch thread and
\* the threads running _start_next_tracker.
C25_NeverBothCallbacks ==
    flow = "analog" => ~(DoneCalls # <<>> /\ ErrorCalls # <<>>)

\* C26: a notify() made in the current session (on completion of the last
\* tracker or on a recorded error) is never lost: the session's watchdog is
\* not left waiting for the deadline after it.
C26_SignalNeverLost ==
    (InSession /\ WatchdogPc = "waiting") => h.sig = {}

\* C28: once the watchdog of the current session has issued its stop commands,
\* no thread of that session configures a tracker (register writes) or issues
\* a start command.
StopsIssued == InSession /\ WatchdogPc \in {"dispatch", "dead"}
C28_NothingAfterStop ==
    [][(StopsIssued /\ self'.timer = self.timer) => ~ConfigureOrStartStep]_vars

\* ------------------------------------------------------------ AnalogMeasurement
\* firmware_info.active_trackers of the connected device
ActiveTrackerSets == {{0}, Trackers}

\* AnalogMeasurement.__init__: no result, nobody in sample()
InitMeasurementObject(active) ==
    [pc |-> "idle", active |-> active, seen |-> 0, raised |-> "none", data |-> NoError]

\* the calls of _measurement_done and _measurement_error, in order: the
\* orchestrator's done_cb and error_cb
MeasurementCalls == SelectSeq(h.cb, LAMBDA e : e.cb \in {"done", "error"})

\* self._measurement_result: the pair the latest of those calls assigned
measurement_result ==
    LET e == MeasurementCalls[Len(MeasurementCalls)]
    IN  <<e.cb = "done", e.arg>>

\* sample() up to the call of self._detection.sample(): the check of the
\* trackers, then AnalogCollection.sample() entered on the caller's thread
measurement_sample(c, a) ==
    /\ meas.pc = "idle"
    /\ thr[c].pc = "idle"
    /\ IF a.trackers \subseteq meas.active
       THEN /\ meas' = [meas EXCEPT !.pc = "sampling"]
            /\ thr' = [thr EXCEPT ![c] = [pc |-> "init", args |-> a,
                                          target |-> self.timer, tr |-> -1]]
       ELSE /\ meas' = [meas EXCEPT !.pc = "raised", !.raised = "CommunicationError"]
            /\ thr' = thr
    /\ UNCHANGED <<trie, regs, pkts, handler, blobs, xform, lastpkt>>
    /\ UNCHANGED <<flow, fw, callers, self, callbacks, wd, dev, h>>

\* self._detection.sample() has returned;
\* with self._end_of_measurement: self._end_of_measurement.wait()
\* a notify() made before this point woke nobody
measurement_wait(c) ==
    /\ meas.pc = "sampling"
    /\ thr[c].pc = "idle"
    /\ meas' = [meas EXCEPT !.pc = "waiting", !.seen = Len(MeasurementCalls)]
    /\ UNCHANGED <<orchestrator, trie, regs, pkts, handler, blobs, xform, lastpkt>>

\* a notify() made while the caller waits wakes it: wait() returns and the
\* result is returned or raised
measurement_return ==
    /\ meas.pc = "waiting"
    /\ Len(MeasurementCalls) > meas.seen
    /\ meas' = [meas EXCEPT !.pc = IF measurement_result[1] THEN "returned" ELSE "raised",
                            !.raised = IF measurement_result[1] THEN "none" ELSE "session error",
                            !.data = measurement_result[2]]
    /\ UNCHANGED <<orchestrator, trie, regs, pkts, handler, blobs, xform, lastpkt>>

InitMeasurement ==
    /\ InitFor({1}, {"analog"}, {Max(FirmwareMinors)})
    /\ trie = Unused /\ regs = Unused /\ pkts = Unused
    /\ handler = Unused /\ blobs = Unused /\ xform = Unused /\ lastpkt = Unused
    /\ \E active \in ActiveTrackerSets : meas = InitMeasurementObject(active)

\* the steps of the threads running sample() and _start_next_tracker
MeasurementThreads ==
    \/ \E c \in callers : \E a \in SessionArgs(flow) : measurement_sample(c, a)
    \/ \E c \in callers : sample_init(c)
    \/ \E k \in CallerIds \cup SpawnIds : start_next_tracker_configure(k)
    \/ \E k \in CallerIds \cup SpawnIds : start_next_tracker_configure_fails(k)
    \/ \E k \in CallerIds \cup SpawnIds : start_next_tracker_start(k)
    \/ \E k \in CallerIds \cup SpawnIds : start_next_tracker_start_fails(k)
    \/ \E c \in callers : measurement_wait(c)
    \/ measurement_return

\* the steps of the watchdog thread; its wait has a deadline
MeasurementWatchdog ==
    \/ \E w \in Sessions : timeout_begin_wait(w)
    \/ \E w \in Sessions : timeout_expires(w)
    \/ \E w \in Sessions : timeout_stop_all(w)
    \/ \E w \in Sessions : timeout_dispatch(w)

\* stop() called by the application, and the device's packets
MeasurementEnvironment ==
    \/ caller_stop
    \/ \E t \in Trackers : \E serial \in BOOLEAN : dev_sample(t, serial)
    \/ \E t \in Trackers : dev_window(t)
    \/ \E t \in Trackers : \E ch \in {SPARE_1, SPARE_2} : dev_channel_window(t, ch)
    \/ \E t \in Trackers : \E ch \in {SPARE_1, SPARE_2} :
         \E ev \in {WINDOW_MEGASAMPLE_TRIGGER_ERROR, COLLECTION_ERROR} :
            dev_channel_error(t, ch, ev)
    \/ \E t \in Trackers : dev_error(t)

NextMeasurement == MeasurementThreads \/ MeasurementWatchdog \/ MeasurementEnvironment

\* every thread that can take a step eventually takes one
SpecMeasurement ==
    /\ InitMeasurement
    /\ [][NextMeasurement]_vars
    /\ WF_vars(MeasurementThreads)
    /\ WF_vars(MeasurementWatchdog)

\* C27: a call of AnalogMeasurement.sample that has entered the collection
\* eventually returns the data or raises the session's error.
C27_SampleTerminates ==
    (meas.pc = "sampling") ~> (meas.pc \in {"returned", "raised"})

\* ------------------------------------------------------------ stream packets
\* the longest run of samples one packet carries
MaxSamplesPerPacket == 2
StreamIndexes == 0..SampleCount
StreamSamples == {x \in SeqsUpTo(SampleValues, MaxSamplesPerPacket) : x # <<>>}

\* what a handler call did besides returning: the exception it raised and the
\* positions of the tracker's buffer it assigned
Quiet == [raised |-> "none", written |-> {}]

\* the loop of _handle_analog_stream, n samples collected so far: the counter
\* is incremented, then self._timeseries_data[tracker_id][index] is assigned
RECURSIVE IndexedLoopOutcome(_, _, _, _, _)
IndexedLoopOutcome(s, tracker_id, index, samples, n) ==
    IF samples = <<>> THEN Quiet
    ELSE IF index >= Len(s.timeseries_data[tracker_id])
    THEN [raised |-> "IndexError", written |-> {}]
    ELSE IF n + 1 >= s.num_samples_expected
    THEN [raised |-> "none", written |-> {index}]
    ELSE LET rest == IndexedLoopOutcome(s, tracker_id, index + 1, Tail(samples), n + 1)
         IN  [rest EXCEPT !.written = @ \cup {index}]

analog_stream_outcome(s, tracker_id, index, samples) ==
    IF index >= s.num_samples_expected THEN Quiet
    ELSE IF tracker_id \notin DOMAIN s.num_samples_collected
    THEN [raised |-> "KeyError", written |-> {}]
    ELSE IF s.num_samples_collected[tracker_id] >= s.num_samples_expected THEN Quiet
    ELSE IndexedLoopOutcome(s, tracker_id, index, samples,
                            s.num_samples_collected[tracker_id])

\* the loop of _handle_serial_analog_stream: the sample is assigned at the
\* position the counter gives
serial_analog_stream_outcome(s, tracker_id, samples) ==
    IF tracker_id \notin DOMAIN s.num_samples_collected
    THEN [raised |-> "KeyError", written |-> {}]
    ELSE LET n == s.num_samples_collected[tracker_id]
             k == Min({Len(samples), s.num_samples_expected - n})
         IN  IF n >= s.num_samples_expected THEN Quiet
             ELSE [raised |-> "none", written |-> n..(n + k - 1)]

NoPacket ==
    [serial |-> FALSE, tracker_id |-> -1, index |-> 0, samples |-> <<>>,
     size |-> 0, raised |-> "none", written |-> {}]

\* the dispatch thread calls the registered handler with a packet of any
\* tracker, index and length
stream_packet(serial, tracker_id, index, samples) ==
    /\ callbacks /\ flow = "analog"
    /\ LET m == IF serial
                THEN handle_serial_analog_stream(Enter(self), tracker_id, samples)
                ELSE handle_analog_stream(Enter(self), tracker_id, index, samples)
           o == IF serial
                THEN serial_analog_stream_outcome(self, tracker_id, samples)
                ELSE analog_stream_outcome(self, tracker_id, index, samples)
       IN  /\ m.spawn = 0 \/ FreeSpawn # {}
           /\ \E n \in NotifyChoices(m) : wd' = Notified(n)
           /\ self' = m.s
           /\ thr' = Spawned(thr, m)
           /\ h' = Hist(h, m)
           /\ lastpkt' = [serial |-> serial, tracker_id |-> tracker_id,
                          index |-> IF serial THEN 0 ELSE index, samples |-> samples,
                          size |-> self.num_samples_expected,
                          raised |-> o.raised, written |-> o.written]
    /\ UNCHANGED <<flow, fw, callers, callbacks, dev>>
    /\ UNCHANGED <<trie, regs, pkts, meas, handler, blobs, xform>>

InitStream ==
    /\ InitFor({1}, {"analog"}, {Max(FirmwareMinors)})
    /\ trie = Unused /\ regs = Unused /\ pkts = Unused
    /\ meas = Unused /\ handler = Unused /\ blobs = Unused /\ xform = Unused
    /\ lastpkt = NoPacket

\* one session of a non-megasampling mode, its threads and its watchdog, and
\* the packets the dispatch thread hands to the stream handlers
NextStream ==
    \/ \E c \in callers : \E a \in {x \in AnalogArgs : ~x.megasample} :
         self.timer = 0 /\ sample_enter(c, a)
    \/ \E c \in callers : sample_init(c)
    \/ \E k \in CallerIds \cup SpawnIds : start_next_tracker_configure(k)
    \/ \E k \in CallerIds \cup SpawnIds : start_next_tracker_start(k)
    \/ \E w \in Sessions : timeout_begin_wait(w)
    \/ \E w \in Sessions : timeout_expires(w)
    \/ \E w \in Sessions : timeout_stop_all(w)
    \/ \E w \in Sessions : timeout_dispatch(w)
    \/ \E serial \in BOOLEAN : \E t \in Trackers : \E index \in StreamIndexes :
         \E samples \in StreamSamples : stream_packet(serial, t, index, samples)

SpecStream == InitStream /\ [][NextStream]_vars

\* C29: whatever packet the dispatch thread hands to a stream handler, the
\* handler assigns only positions inside the tracker's buffer and raises
\* nothing.
C29_WritesInsideNeverRaises ==
    /\ lastpkt.raised = "none"
    /\ lastpkt.written \subseteq 0..(lastpkt.size - 1)

\* ------------------------------------------------------------ frontend PacketHandler
\* publicapi.PacketType: two requests answered by a response, one stream
PROPERTY_SET == 155
SYSTEM_CONTROL == 156
MCU_TEMPERATURE == 34
RequestTypes == {PROPERTY_SET, SYSTEM_CONTROL}
StreamTypes == {MCU_TEMPERATURE}
\* a type byte that neither publicapi.PacketType nor internal.PacketType has
UnrecognizedTypes == {127}
\* PacketType.is_stream
is_stream(packet_type) == packet_type < 128

\* publicapi.AckCodes
ACK_SUCCESS == 0
ACK_FAILURE == 1
ACK_REQUEST_TIMEOUT == 11

MaxRequests == 3
MaxStreamPackets == 2

\* struct.calcsize of the decoder's format: '<BB', '<BB' and '<2f'
calcsize(packet_type) == IF packet_type \in RequestTypes THEN 2 ELSE 8

Repeat(b, n) == [i \in 1..n |-> b]
\* payloads: empty, a lone ack code, a full response, a full stream sample
ResponseData == {<<>>, <<ACK_SUCCESS>>, <<ACK_FAILURE>>, <<ACK_SUCCESS, 1>>}
StreamData == {<<>>, <<ACK_SUCCESS>>, <<ACK_FAILURE>>, Repeat(1, 8)}

\* struct.unpack: one field per byte for '<BB', one per four bytes for '<2f'
unpack(packet_type, data) ==
    IF packet_type \in RequestTypes THEN data
    ELSE <<SubSeq(data, 1, 4), SubSeq(data, 5, 8)>>

\* decoders.decode: the decoded tuple, or the exception that leaves it
decode(packet_type, data) ==
    IF Len(data) = calcsize(packet_type)
    THEN [raised |-> "none", value |-> unpack(packet_type, data)]
    ELSE IF data = <<>>
    THEN [raised |-> "IndexError", value |-> <<>>]   \* data[0] in the except clause
    ELSE IF data[1] # ACK_SUCCESS
    THEN [raised |-> "none", value |-> <<data[1]>>]
    ELSE [raised |-> "ValueError", value |-> <<>>]

\* PacketHandler.__init__, with the application thread and the backend
InitPacketHandler ==
    [pending |-> [t \in RequestTypes |-> <<>>],  \* _pending_requests
     registered |-> {},                          \* types with a stream handler
     responses |-> <<>>,                         \* _responses
     app |-> {},                                 \* the blocking request waiting, if any
     issued |-> 0,                               \* requests made so far
     backend |-> <<>>,                           \* requests the backend has not answered
     streamed |-> 0,                             \* stream packets received so far
     rx |-> [ctrl |-> "running", data |-> "running"],  \* the receive threads
     escaped |-> "none",                         \* exception that left _handle_packet
     lost |-> 0,                                 \* packets with a callback that reached no thread
     called |-> <<>>,                            \* the callback invoked last
     results |-> {}]                             \* what blocking requests returned

\* PacketHandler._blocking_handler
blocking_handler(st, args, req) ==
    [st EXCEPT !.responses = Append(@, [args |-> args, req |-> req])]

\* does a callback stand ready for a packet of this type
Awaited(st, packet_type) ==
    \/ packet_type \in st.registered
    \/ packet_type \in RequestTypes /\ st.pending[packet_type] # <<>>

\* PacketHandler._handle_packet; req holds the request the packet answers
handle_packet(st, packet_type_int, data, req) ==
    IF packet_type_int \in UnrecognizedTypes THEN st
    ELSE LET decoded == decode(packet_type_int, data)
         IN  IF decoded.raised # "none" THEN [st EXCEPT !.escaped = decoded.raised]
             ELSE IF packet_type_int \in st.registered
             THEN [st EXCEPT !.called = <<"stream", packet_type_int, decoded.value>>]
             ELSE IF is_stream(packet_type_int) THEN st
             ELSE IF st.pending[packet_type_int] = <<>> THEN st
             ELSE LET first == Head(st.pending[packet_type_int])
                      popped == [st EXCEPT !.pending[packet_type_int] = Tail(@)]
                  IN  IF first.kind = "blocking"
                      THEN blocking_handler(popped, decoded.value, req)
                      ELSE [popped EXCEPT !.called = <<"callback", first.req, req>>]

\* BackendStream._handle_recv_ctrl / _handle_recv_data: the loop calls the
\* handler with no try around it, so an exception ends the thread
Receive(st, thread, packet_type_int, data, req) ==
    IF st.rx[thread] = "dead"
    THEN [st EXCEPT !.lost = IF Awaited(st, packet_type_int) /\
                                 decode(packet_type_int, data).raised = "none"
                              THEN 1 ELSE @]
    ELSE LET after == handle_packet([st EXCEPT !.escaped = "none"],
                                    packet_type_int, data, req)
         IN  IF after.escaped # "none"
             THEN [after EXCEPT !.rx[thread] = "dead"]
             ELSE [after EXCEPT !.escaped = st.escaped]

HandlerFrame ==
    UNCHANGED <<orchestrator, trie, regs, pkts, meas, blobs, xform, lastpkt>>

\* request(packet_type, callback=None) up to self._rx_cv.wait(...)
\* request(packet_type, callback=f) to its return
request(packet_type, blocking) ==
    /\ handler.app = {}
    /\ handler.issued < MaxRequests
    /\ LET id == handler.issued + 1
       IN  handler' = [handler EXCEPT
              !.issued = id,
              !.pending[packet_type] =
                  Append(@, [kind |-> IF blocking THEN "blocking" ELSE "callback",
                             req |-> id]),
              !.backend = Append(@, [packet_type |-> packet_type, req |-> id]),
              !.app = IF blocking THEN {id} ELSE {}]
    /\ HandlerFrame

\* request(): wait() has returned, notified or timed out; self._responses.pop()
request_returns ==
    /\ handler.app # {}
    /\ LET n == Len(handler.responses)
           outcome == IF n = 0
                      THEN [req |-> handler.app, answers |-> {},
                            raised |-> ACK_REQUEST_TIMEOUT]
                      ELSE [req |-> handler.app, answers |-> handler.responses[n].req,
                            raised |-> handler.responses[n].args[1]]
       IN  handler' = [handler EXCEPT
              !.responses = IF n = 0 THEN @ ELSE SubSeq(@, 1, n - 1),
              !.results = @ \cup {outcome},
              !.app = {}]
    /\ HandlerFrame

\* register_stream_handler(packet_type, handler)
register_stream_handler(packet_type) ==
    /\ packet_type \notin handler.registered
    /\ handler' = [handler EXCEPT !.registered = @ \cup {packet_type}]
    /\ HandlerFrame

\* the backend answers its oldest request; the answer arrives on the
\* control socket
backend_responds(data) ==
    /\ handler.backend # <<>>
    /\ LET r == Head(handler.backend)
       IN  handler' = Receive([handler EXCEPT !.backend = Tail(@)],
                              "ctrl", r.packet_type, data, {r.req})
    /\ HandlerFrame

\* the backend never answers its oldest request
backend_drops ==
    /\ handler.backend # <<>>
    /\ handler' = [handler EXCEPT !.backend = Tail(@)]
    /\ HandlerFrame

\* a stream packet arrives on the data socket
stream_arrives(packet_type_int, data) ==
    /\ handler.streamed < MaxStreamPackets
    /\ handler' = Receive([handler EXCEPT !.streamed = @ + 1],
                          "data", packet_type_int, data, {})
    /\ HandlerFrame

InitHandler ==
    /\ InitFor({1}, {"analog"}, {Max(FirmwareMinors)})
    /\ trie = Unused /\ regs = Unused /\ pkts = Unused
    /\ meas = Unused /\ blobs = Unused /\ xform = Unused /\ lastpkt = Unused
    /\ handler = InitPacketHandler

NextHandler ==
    \/ \E t \in RequestTypes : \E blocking \in BOOLEAN : request(t, blocking)
    \/ request_returns
    \/ \E t \in StreamTypes : register_stream_handler(t)
    \/ \E data \in ResponseData : backend_responds(data)
    \/ backend_drops
    \/ \E t \in StreamTypes \cup UnrecognizedTypes : \E data \in StreamData :
         stream_arrives(t, data)

SpecHandler == InitHandler /\ [][NextHandler]_vars

\* C21: no exception leaves the packet handler because of one received
\* packet, and every later packet that decodes and has a callback waiting for
\* it is delivered.
C21_DecodeFailureSwallowed ==
    handler.escaped = "none" /\ handler.lost = 0

\* C30: a blocking request returns only the response to itself, and once no
\* blocking request is in progress nothing of one is left behind: no pending
\* blocking handler and no queued response.
OwnResponseOnly == \A r \in handler.results : r.answers \subseteq r.req
NothingLeftBehind ==
    handler.app = {} =>
        /\ handler.responses = <<>>
        /\ \A t \in RequestTypes :
             \A i \in 1..Len(handler.pending[t]) : handler.pending[t][i].kind # "blocking"
C30_OnlyItsOwnResponse == OwnResponseOnly /\ NothingLeftBehind

\* ------------------------------------------------------------ blob parsers
\* publicapi.BlobType
CALIBRATION == 1
AUTOTUNE == 3
\* defaults.py and blob_parsers.py
MAX_EYES == 2
MAX_SCANNERS == 2
N_PHOTODIODES == 6
NUM_SCAN_DIMS == 2
SIZEOF_FLOAT == 4

\* a float is kept as its 32-bit pattern; these are nan and 1.0
FLOAT_NAN == 255 * 2^23 + 2^22
FLOAT_ONE == 127 * 2^23
isfinite(x) == (x \div 2^23) % 256 # 255

\* the most points a calibration value holds
MaxPoints == 2

RECURSIVE Flat(_)
\* the concatenation of a sequence of sequences; numpy's flatten for two levels
Flat(ss) == IF ss = <<>> THEN <<>> ELSE Head(ss) \o Flat(Tail(ss))

\* struct.pack('<I', x) and struct.pack('<f', x): four bytes, low byte first
pack4(x) == <<x % 256, (x \div 256) % 256, (x \div 65536) % 256, (x \div 16777216) % 256>>
pack_floats(xs) == Flat([i \in 1..Len(xs) |-> pack4(xs[i])])

RECURSIVE from_bytes(_)
\* int.from_bytes(b, 'little'), of any length
from_bytes(b) == IF b = <<>> THEN 0 ELSE Head(b) + 256 * from_bytes(Tail(b))

\* struct.unpack_from('<{n}f', data, offset), which needs offset + 4n bytes
unpack_from_short(n, data, offset) == offset + SIZEOF_FLOAT * n > Len(data)
unpack_from(n, data, offset) ==
    [i \in 1..n |-> from_bytes(SubSeq(data, offset + SIZEOF_FLOAT * (i - 1) + 1,
                                      offset + SIZEOF_FLOAT * i))]

Returns(v) == [raised |-> "none", value |-> v]
Throws(e) == [raised |-> e, value |-> <<>>]

\* _create_autotune_v2_blob
create_autotune_v2_blob(data, context) ==
    IF data.revision < 0 \/ data.revision \div 65536 >= 65536 THEN Throws("struct.error")
    ELSE Returns(pack4(data.revision) \o
                 Flat([eye \in 1..MAX_EYES |->
                        Flat([axis \in 1..NUM_SCAN_DIMS |->
                               pack_floats(data.offsets[eye][axis])])]))

\* _parse_autotune_v1_blob
parse_autotune_v1_blob(blob_data, context) ==
    LET at(eye, axis) == (NUM_SCAN_DIMS * (eye - 1) + (axis - 1)) * N_PHOTODIODES * SIZEOF_FLOAT
    IN  IF \E eye \in 1..MAX_EYES : \E axis \in 1..NUM_SCAN_DIMS :
              unpack_from_short(N_PHOTODIODES, blob_data, at(eye, axis))
        THEN Throws("struct.error")
        ELSE Returns([offsets |-> [eye \in 1..MAX_EYES |-> [axis \in 1..NUM_SCAN_DIMS |->
                                     unpack_from(N_PHOTODIODES, blob_data, at(eye, axis))]],
                      revision |-> 0])

\* _parse_autotune_v2_blob: v1 behind a four-byte revision
parse_autotune_v2_blob(blob_data, context) ==
    LET v1 == parse_autotune_v1_blob(Slice(blob_data, 4, Len(blob_data)), context)
    IN  IF v1.raised # "none" THEN v1
        ELSE Returns([v1.value EXCEPT !.revision = from_bytes(Slice(blob_data, 0, 4))])

\* the contexts: None, and the namedtuple CalibrationContext
None == [type |-> "NoneType"]
CalibrationContext(eye_mask) == [type |-> "CalibrationContext", eye_mask |-> eye_mask]

\* the mask of the eyes in context.eye_mask whose feature is finite
FeatureMask(context, feature) ==
    LET bit(eye) == IF (context.eye_mask \div 2^(eye - 1)) % 2 = 1 /\
                       \A i \in 1..Len(feature[eye]) : isfinite(feature[eye][i])
                    THEN 2^(eye - 1) ELSE 0
    IN  bit(1) + bit(2)

\* _create_calibration_v6_blob: the number of points, then every point
create_calibration_v6_blob(data, context) ==
    IF context = None THEN Throws("AttributeError")
    ELSE LET point(i) ==
                 pack_floats(data.gaze_ref[i])
                 \o <<FeatureMask(context, data.fused[i])>> \o pack_floats(Flat(data.fused[i]))
                 \o <<FeatureMask(context, data.pupil[i])>> \o pack_floats(Flat(data.pupil[i]))
                 \o pack_floats(Flat(data.glint[i]))
         IN  Returns(<<Len(data.gaze_ref)>> \o
                     Flat([i \in 1..Len(data.gaze_ref) |-> point(i)]))

\* numpy's reshape of a flat sequence to rows of the given length
Reshape(flat, rows, cols) ==
    [r \in 1..rows |-> SubSeq(flat, cols * (r - 1) + 1, cols * r)]

\* the bytes of one calibration point: gaze_ref, mask, fused, mask, pupil, glint
PointFloats == 3 + 2 * (MAX_SCANNERS * NUM_SCAN_DIMS) + MAX_SCANNERS * N_PHOTODIODES * NUM_SCAN_DIMS
PointSize == PointFloats * SIZEOF_FLOAT + 2

RECURSIVE CalibrationPoints(_, _)
\* the loop of _parse_calibration_v6_blob from offset on: the points, or
\* <<Throws("struct.error")>> when an unpack_from reaches past the end
CalibrationPoints(blob_data, offset) ==
    IF offset >= Len(blob_data) THEN <<>>
    ELSE LET fused_len == MAX_SCANNERS * NUM_SCAN_DIMS
             glint_len == MAX_SCANNERS * N_PHOTODIODES * NUM_SCAN_DIMS
             fused_at == offset + 12 + 1
             pupil_at == fused_at + fused_len * 4 + 1
             glint_at == pupil_at + fused_len * 4
         IN  IF \/ unpack_from_short(3, blob_data, offset)
                \/ offset + 12 + 1 > Len(blob_data)
                \/ unpack_from_short(fused_len, blob_data, fused_at)
                \/ pupil_at > Len(blob_data)
                \/ unpack_from_short(fused_len, blob_data, pupil_at)
                \/ unpack_from_short(glint_len, blob_data, glint_at)
             THEN <<Throws("struct.error")>>
             ELSE LET rest == CalibrationPoints(blob_data, glint_at + glint_len * 4)
                  IN  IF rest # <<>> /\ rest[Len(rest)] = Throws("struct.error") THEN <<Throws("struct.error")>>
                      ELSE <<[gaze_ref |-> unpack_from(3, blob_data, offset),
                              fused |-> Reshape(unpack_from(fused_len, blob_data, fused_at),
                                                MAX_SCANNERS, NUM_SCAN_DIMS),
                              pupil |-> Reshape(unpack_from(fused_len, blob_data, pupil_at),
                                                MAX_SCANNERS, NUM_SCAN_DIMS),
                              glint |-> Reshape(unpack_from(glint_len, blob_data, glint_at),
                                                MAX_SCANNERS, N_PHOTODIODES * NUM_SCAN_DIMS)]>>
                          \o rest

\* _parse_calibration_v6_blob; dscales is fused ** 0 and component_offsets
\* is zeros((MAX_SCANNERS, XYZ_SIZE))
parse_calibration_v6_blob(blob_data, context) ==
    LET points == CalibrationPoints(blob_data, 1)
        n == Len(points)
    IN  IF points # <<>> /\ points[n] = Throws("struct.error") THEN Throws("struct.error")
        ELSE Returns([gaze_ref |-> [i \in 1..n |-> points[i].gaze_ref],
                      fused |-> [i \in 1..n |-> points[i].fused],
                      pupil |-> [i \in 1..n |-> points[i].pupil],
                      glint |-> [i \in 1..n |-> points[i].glint],
                      dscales |-> [i \in 1..n |-> [e \in 1..MAX_SCANNERS |->
                                     [d \in 1..NUM_SCAN_DIMS |-> FLOAT_ONE]]],
                      component_offsets |-> [e \in 1..MAX_SCANNERS |-> <<0, 0, 0>>]])

\* the (type, version) pairs of parser_map and creator_map that are modelled
parser_map == {<<AUTOTUNE, 1>>, <<AUTOTUNE, 2>>, <<CALIBRATION, 6>>}
creator_map == {<<AUTOTUNE, 2>>, <<CALIBRATION, 6>>}

Parser(blob_type, blob_version, payload, context) ==
    IF blob_type = AUTOTUNE /\ blob_version = 1 THEN parse_autotune_v1_blob(payload, context)
    ELSE IF blob_type = AUTOTUNE THEN parse_autotune_v2_blob(payload, context)
    ELSE parse_calibration_v6_blob(payload, context)

Creator(blob_type, blob_version, data, context) ==
    IF blob_type = AUTOTUNE THEN create_autotune_v2_blob(data, context)
    ELSE create_calibration_v6_blob(data, context)

\* what parse_blob and create_blob raise
BlobValueError(message, cause) ==
    [raised |-> "ValueError", message |-> message, cause |-> cause, value |-> <<>>]
Returned(v) == [raised |-> "none", message |-> "", cause |-> "none", value |-> v]

\* variant: the parser's exception is not caught
parse_blob_unguarded(blob_type, context, blob_data) ==
    IF blob_data = <<>> THEN BlobValueError("No blob to read", "none")
    ELSE IF <<blob_type, blob_data[1]>> \notin parser_map
    THEN BlobValueError("No parser defined", "none")
    ELSE LET r == Parser(blob_type, blob_data[1], Tail(blob_data), context)
         IN  IF r.raised # "none"
             THEN [raised |-> r.raised, message |-> "", cause |-> "none", value |-> <<>>]
             ELSE Returned([version |-> blob_data[1], data |-> r.value])

\* blob_parsers.parse_blob
parse_blob(blob_type, context, blob_data) ==
    IF blob_data = <<>> THEN BlobValueError("No blob to read", "none")
    ELSE IF <<blob_type, blob_data[1]>> \notin parser_map
    THEN BlobValueError("No parser defined", "none")
    ELSE LET r == Parser(blob_type, blob_data[1], Tail(blob_data), context)
         IN  IF r.raised # "none"
             THEN BlobValueError("Blob data doesn't match format", r.raised)
             ELSE Returned([version |-> blob_data[1], data |-> r.value])

\* blob_parsers.create_blob
create_blob(blob_type, blob_version, context, data) ==
    IF <<blob_type, blob_version>> \notin creator_map
    THEN BlobValueError("No blob creator defined", "none")
    ELSE LET r == Creator(blob_type, blob_version, data, context)
         IN  IF r.raised # "none" THEN BlobValueError("Invalid data provided", r.raised)
             ELSE Returned(<<blob_version>> \o r.value)

\* ---- the values and byte arrays the functions are applied to
\* floats whose patterns differ at every position of the value
Coded(base, n) == [i \in 1..n |-> base + i]
AutotuneValues ==
    {[revision |-> r,
      offsets |-> [eye \in 1..MAX_EYES |-> [axis \in 1..NUM_SCAN_DIMS |->
                     Coded(b + 100 * eye + 10 * axis, N_PHOTODIODES)]]] :
        r \in {0, 258}, b \in {0, FLOAT_ONE}}
CalibrationPoint(i, fused0) ==
    [gaze_ref |-> Coded(1000 * i, 3),
     fused |-> <<<<fused0, 1000 * i + 12>>, Coded(1000 * i + 20, 2)>>,
     pupil |-> <<Coded(1000 * i + 30, 2), Coded(1000 * i + 40, 2)>>,
     glint |-> <<Coded(1000 * i + 100, N_PHOTODIODES * NUM_SCAN_DIMS),
                 Coded(1000 * i + 200, N_PHOTODIODES * NUM_SCAN_DIMS)>>]
CalibrationValues ==
    {LET pts == [i \in 1..n |-> CalibrationPoint(i, fused0)]
     IN  [gaze_ref |-> [i \in 1..n |-> pts[i].gaze_ref],
          fused |-> [i \in 1..n |-> pts[i].fused],
          pupil |-> [i \in 1..n |-> pts[i].pupil],
          glint |-> [i \in 1..n |-> pts[i].glint]] :
        n \in 0..MaxPoints, fused0 \in {11, FLOAT_NAN}}
BlobInputs ==
    {[blob_type |-> AUTOTUNE, blob_version |-> v, context |-> None, data |-> d] :
        v \in {1, 2}, d \in AutotuneValues}
    \cup {[blob_type |-> CALIBRATION, blob_version |-> 6, context |-> c, data |-> d] :
        c \in {CalibrationContext(1), CalibrationContext(3)}, d \in CalibrationValues}

NothingYet == [raised |-> "nothing yet"]
InitBlobState ==
    [input |-> [blob_type |-> AUTOTUNE, blob_version |-> 2, context |-> None,
                data |-> <<>>],
     created |-> NothingYet, blob_data |-> <<>>, parsed |-> NothingYet]

BlobFrame ==
    UNCHANGED <<orchestrator, trie, regs, pkts, meas, handler, xform, lastpkt>>

\* create_blob applied to a value
CallCreateBlob(in) ==
    /\ blobs' = LET r == create_blob(in.blob_type, in.blob_version, in.context, in.data)
                IN  [input |-> in, created |-> r,
                     blob_data |-> r.value, parsed |-> NothingYet]
    /\ BlobFrame

\* the stored array comes back cut short, or with another version byte
StoredArrayDamaged(n, version) ==
    /\ blobs.created.raised = "none" /\ blobs.parsed = NothingYet
    /\ n <= Len(blobs.blob_data)
    /\ blobs' = [blobs EXCEPT
          !.created = NothingYet,
          !.blob_data = IF n = 0 THEN <<>>
                        ELSE <<version>> \o SubSeq(blobs.blob_data, 2, n)]
    /\ BlobFrame

\* parse_blob applied to the array, with the context it was created with
CallParseBlob ==
    /\ blobs.blob_data # <<>> \/ blobs.created = NothingYet
    /\ blobs.parsed = NothingYet
    /\ blobs' = [blobs EXCEPT
          !.parsed = parse_blob(blobs.input.blob_type, blobs.input.context, blobs.blob_data)]
    /\ BlobFrame

InitBlob ==
    /\ InitFor({1}, {"analog"}, {Max(FirmwareMinors)})
    /\ trie = Unused /\ regs = Unused /\ pkts = Unused
    /\ meas = Unused /\ handler = Unused /\ xform = Unused /\ lastpkt = Unused
    /\ blobs = InitBlobState

\* array lengths that cut a blob inside and between its fields
DamagedLengths == {0, 1, 2, 4, 5, 50, 100, 101, PointSize, PointSize + 2, 2 * PointSize + 2}

NextBlob ==
    \/ \E in \in BlobInputs : CallCreateBlob(in)
    \/ \E n \in DamagedLengths : \E version \in {1, 2, 6, 9} : StoredArrayDamaged(n, version)
    \/ CallParseBlob

SpecBlob == InitBlob /\ [][NextBlob]_vars

Parsed == blobs.parsed # NothingYet

\* C22: parse_blob returns a value or raises ValueError in one of three
\* forms: nothing to read for an empty array, no parser defined for a pair
\* that is not registered, and data not matching the format, with the
\* parser's exception as cause, for a registered pair; nothing else.
C22_ParseFailsThreeWays ==
    Parsed =>
      LET r == blobs.parsed
          b == blobs.blob_data
          registered == b # <<>> /\ <<blobs.input.blob_type, b[1]>> \in parser_map
      IN  /\ r.raised \in {"none", "ValueError"}
          /\ b = <<>> => r.raised = "ValueError" /\ r.message = "No blob to read"
          /\ (b # <<>> /\ ~registered) =>
                r.raised = "ValueError" /\ r.message = "No parser defined"
          /\ (registered /\ r.raised # "none") =>
                r.message = "Blob data doesn't match format" /\ r.cause # "none"

C22_Witness ==
    /\ Parsed
    /\ blobs.parsed.raised = "ValueError"
    /\ blobs.parsed.message = "Blob data doesn't match format"
    /\ blobs.parsed.cause = "struct.error"

\* C23: for a pair with a creator and a parser, parsing what create_blob
\* made of a value, with the same context, returns the version and a value
\* equal to that value.
RoundTrip ==
    /\ Parsed /\ blobs.created.raised = "none"
    /\ <<blobs.input.blob_type, blobs.input.blob_version>> \in creator_map \cap parser_map
C23_BlobRoundTrip ==
    RoundTrip =>
        /\ blobs.parsed.raised = "none"
        /\ blobs.parsed.value.version = blobs.input.blob_version
        /\ blobs.parsed.value.data = blobs.input.data

\* ------------------------------------------------------------ register transformers
\* A float is kept as an exact fraction <<numerator, denominator>> with a
\* positive denominator, in lowest terms.
RECURSIVE GCD(_, _)
GCD(a, b) == IF b = 0 THEN a ELSE GCD(b, a % b)
Abs(n) == IF n < 0 THEN -n ELSE n
Frac(n, d) ==
    LET g == GCD(Abs(n), Abs(d))
        sign == IF d < 0 THEN -1 ELSE 1
    IN  <<sign * (n \div g), sign * (d \div g)>>
Whole(n) == <<n, 1>>
FMul(a, b) == Frac(a[1] * b[1], a[2] * b[2])
FDiv(a, b) == Frac(a[1] * b[2], a[2] * b[1])
FAdd(a, b) == Frac(a[1] * b[2] + b[1] * a[2], a[2] * b[2])
FSub(a, b) == FAdd(a, <<-b[1], b[2]>>)
FLess(a, b) == a[1] * b[2] < b[1] * a[2]
FAbs(a) == <<Abs(a[1]), a[2]>>
\* int(x): the fraction cut towards zero
int_of(a) == IF a[1] >= 0 THEN a[1] \div a[2] ELSE -((-a[1]) \div a[2])

\* the transformers, by class and keyword arguments
TransformQuantize(max_val, num_bits) ==
    [class |-> "TransformQuantize", max_val |-> max_val, num_bits |-> num_bits]
TransformMetricConversion(multiplier) ==
    [class |-> "TransformMetricConversion", multiplier |-> multiplier]
TransformBitfield(choices) == [class |-> "TransformBitfield", choices |-> choices]
TransformSelection(choices) == [class |-> "TransformSelection", choices |-> choices]
TransformLinearNorm(userrange, hwrange) ==
    [class |-> "TransformLinearNorm", userrange |-> userrange, hwrange |-> hwrange]

\* normalize.linearnorm
linearnorm(val, inputrange, outputrange) ==
    LET inputmin == Whole(inputrange[1])
        inputmax == Whole(inputrange[2])
        outputmin == Whole(outputrange[1])
        outputmax == Whole(outputrange[2])
        gain == FDiv(FAdd(FSub(outputmax, outputmin), Whole(1)),
                     FAdd(FSub(inputmax, inputmin), Whole(1)))
    IN  IF FLess(inputmax, inputmin) \/ FLess(outputmax, outputmin) THEN Throws("TypeError")
        ELSE IF FLess(val, inputmin) \/ FLess(inputmax, val) THEN Throws("TypeError")
        ELSE IF val = inputmax THEN Returns(outputmax)
        ELSE IF val = inputmin THEN Returns(outputmin)
        ELSE Returns(FAdd(FMul(gain, FSub(val, inputmin)), outputmin))

\* value & (1 << bit)
BitSet(value, bit) == (value \div 2^bit) % 2 = 1
\* TransformBitfield.transform: bitfield |= 1 << choice over the list, from
\* bitfield on; the ValueError of _choice_to_bit ends the loop
RECURSIVE BitfieldOf(_, _, _)
BitfieldOf(t, value, bitfield) ==
    IF value = <<>> THEN Returns(bitfield)
    ELSE IF \A i \in 1..Len(t.choices) : t.choices[i] # Head(value)
         THEN Throws("ValueError")
    ELSE BitfieldOf(t, Tail(value),
                    IF BitSet(bitfield, Head(value)) THEN bitfield
                    ELSE bitfield + 2^Head(value))

\* variant: invert maps with the ranges in the order transform uses
LinearNorm_invert_same_direction(t, value) ==
    linearnorm(Whole(value), t.userrange, t.hwrange)

\* TransformLinearNorm.invert
LinearNorm_invert(t, value) ==
    linearnorm(Whole(value), t.hwrange, t.userrange)

\* transform(name, value) of each class: the register-field integer
TransformerTransform(t, value) ==
    CASE t.class = "TransformQuantize" ->
           Returns(int_of(FMul(FDiv(value, t.max_val), Whole(2^t.num_bits - 1))))
      [] t.class = "TransformMetricConversion" ->
           Returns(int_of(FMul(value, t.multiplier)))
      [] t.class = "TransformBitfield" ->
           BitfieldOf(t, value, 0)
      [] t.class = "TransformSelection" ->
           IF value \in t.choices THEN Returns(value) ELSE Throws("ValueError")
      [] t.class = "TransformLinearNorm" ->
           LET r == linearnorm(value, t.userrange, t.hwrange)
           IN  IF r.raised = "TypeError" THEN Throws("ValueError")
               ELSE Returns(int_of(r.value))

\* invert(name, value) of each class: the user value
TransformerInvert(t, value) ==
    CASE t.class = "TransformQuantize" ->
           Returns(FMul(FDiv(Whole(value), Whole(2^t.num_bits - 1)), t.max_val))
      [] t.class = "TransformMetricConversion" ->
           Returns(FDiv(Whole(value), t.multiplier))
      [] t.class = "TransformBitfield" ->
           Returns(SelectSeq(t.choices, LAMBDA bit : BitSet(value, bit)))
      [] t.class = "TransformSelection" -> Returns(value)
      [] t.class = "TransformLinearNorm" ->
           LET r == LinearNorm_invert(t, value)
           IN  IF r.raised = "TypeError" THEN Throws("ValueError") ELSE r

\* ---- the transformers and the values of their domains
GridSteps == 12
Transformers ==
    {TransformQuantize(Frac(33, 10), 4), TransformQuantize(Whole(5), 3),
     TransformMetricConversion(Whole(1000)), TransformMetricConversion(Frac(1, 4)),
     TransformBitfield(<<3, 0, 1>>), TransformSelection({0, 2, 5}),
     TransformLinearNorm(<<0, 1023>>, <<0, 4095>>),
     TransformLinearNorm(<<0, 100>>, <<0, 15>>),
     TransformLinearNorm(<<-5, 5>>, <<0, 63>>)}

\* evenly spaced values from lo to hi, and values a third inside each end
Grid(lo, hi) ==
    {FAdd(lo, FMul(FSub(hi, lo), Frac(k, GridSteps))) : k \in 0..GridSteps}
    \cup {FAdd(lo, Frac(1, 3)), FSub(hi, Frac(1, 3))}

\* the keys of a bitfield's choices, which are kept in the dict's order
Choices(t) == {t.choices[i] : i \in 1..Len(t.choices)}
MaxEnabled == 2

Domain(t) ==
    CASE t.class = "TransformQuantize" -> Grid(Whole(0), t.max_val)
      [] t.class = "TransformMetricConversion" -> Grid(Whole(-2), Whole(9))
      [] t.class = "TransformBitfield" ->
           UNION {[1..n -> Choices(t)] : n \in 0..MaxEnabled}
      [] t.class = "TransformSelection" -> t.choices
      [] t.class = "TransformLinearNorm" ->
           Grid(Whole(t.userrange[1]), Whole(t.userrange[2]))

\* the spacing of the user values that distinct register values stand for
Tolerance(t) ==
    CASE t.class = "TransformQuantize" -> FDiv(t.max_val, Whole(2^t.num_bits - 1))
      [] t.class = "TransformMetricConversion" -> FDiv(Whole(1), t.multiplier)
      [] t.class = "TransformLinearNorm" ->
           FDiv(Whole(t.userrange[2] - t.userrange[1] + 1),
                Whole(t.hwrange[2] - t.hwrange[1] + 1))
      [] OTHER -> Whole(0)

NotApplied == [raised |-> "not applied", value |-> <<>>]
InitTransform ==
    /\ InitFor({1}, {"analog"}, {Max(FirmwareMinors)})
    /\ trie = Unused /\ regs = Unused /\ pkts = Unused
    /\ meas = Unused /\ handler = Unused /\ blobs = Unused /\ lastpkt = Unused
    /\ \E t \in Transformers : \E x \in Domain(t) :
         xform = [t |-> t, x |-> x, raw |-> NotApplied, back |-> NotApplied]

TransformFrame ==
    UNCHANGED <<orchestrator, trie, regs, pkts, meas, handler, blobs, lastpkt>>

CallTransform ==
    /\ xform.raw.raised = "not applied"
    /\ xform' = [xform EXCEPT !.raw = TransformerTransform(xform.t, xform.x)]
    /\ TransformFrame

CallInvert ==
    /\ xform.raw.raised = "none"
    /\ xform.back.raised = "not applied"
    /\ xform' = [xform EXCEPT !.back = TransformerInvert(xform.t, xform.raw.value)]
    /\ TransformFrame

NextTransform == CallTransform \/ CallInvert

SpecTransform == InitTransform /\ [][NextTransform]_vars

Inverted == xform.back.raised # "not applied"
\* the choices a list enables
Enabled(value) == {value[i] : i \in 1..Len(value)}

====
